---------------------------- MODULE Spec2Model ----------------------------
(***************************************************************************)
(* Session Performance Analyzer: the CSV parsers, the session fusion, the  *)
(* statistics and the upload / generate / demo state machine of the        *)
(* SessionAnalyzer component (src/unnamed/part_006).                       *)
(*                                                                         *)
(* Numbers.  JavaScript numbers are modelled as exact decimals in fixed    *)
(* point.  A parsed cell is a Float record [nan, e, m] that denotes        *)
(* e * 10^10 + m / 1000 (m counts thousandths; e is 1 only for the Unix    *)
(* timestamps written relative to the 1e10 seconds/milliseconds threshold  *)
(* of parseAWSCSV, which does not fit a 32-bit integer).                   *)
(* A stored successRate / sessionLength, which the parsers round with      *)
(* toFixed(2), is an integer count of hundredths.  The statistics, which   *)
(* generateFusionReport rounds with toFixed(1), are integer counts of      *)
(* tenths.  The literal tables hold no value that sits exactly on a        *)
(* rounding tie, where toFixed depends on the binary representation.       *)
(***************************************************************************)
EXTENDS Integers, Sequences, FiniteSets, TLC

VARIABLES
    fusedData,            \* useState<FusedDataPoint[]>            part_006:29
    shopifyData,          \* useState<ShopifyData[]>               part_006:30
    awsData,              \* useState<AWSData[]>                   part_006:31
    stats,                \* useState({totalSessions, ...})        part_006:34
    shopifyUploadStatus,  \* 'idle'|'uploading'|'success'|'error'  part_006:41
    awsUploadStatus,      \*                                       part_006:42
    isReportGenerated,    \*                                       part_006:43
    shopifyMessage,       \*                                       part_006:44
    awsMessage,           \*                                       part_006:45
    fusionMessage,        \*                                       part_006:46
    shopifyReaders,       \* FileReaders started by handleShopifyUpload, not yet fired
    awsReaders,           \* FileReaders started by handleAWSUpload, not yet fired
    csvText,              \* the text and source of the latest reader.onload
    smoothingLevel,       \* useState<number>(10)                 part_006:33
    download,             \* the text of the latest exported file
    cli                   \* a run of the synthetic-data CLI: its arguments,
                          \* options, generated data, written files, exit code

vars == <<fusedData, shopifyData, awsData, stats, shopifyUploadStatus,
          awsUploadStatus, isReportGenerated, shopifyMessage, awsMessage,
          fusionMessage, shopifyReaders, awsReaders, csvText,
          smoothingLevel, download, cli>>

-----------------------------------------------------------------------------
(* Bounds of the model.                                                    *)

\* longest SuccessRecord set drawn by InitFuse
MaxSuccess == 3
\* longest DurationRecord set drawn by InitFuse
MaxDuration == 2
\* most data lines of a CSV text drawn by InitParse
MaxCsvRows == 2
\* most FileReaders of one source in flight at once
MaxReaders == 2

\* the most fused records of a smoothed report
MaxPoints == 52
\* most success records drawn by InitStats
MaxStatRecords == 3
\* the period with which the values of Math.random() repeat in a run of the CLI
MaxPeriod == 3

-----------------------------------------------------------------------------
(* JavaScript values.                                                      *)

\* values[i] past the end of the array
Undefined == "<undefined>"

Fin(n) == [nan |-> FALSE, e |-> 0, m |-> n]

Near(n) == [nan |-> FALSE, e |-> 1, m |-> n]

NaN == [nan |-> TRUE, e |-> 0, m |-> 0]

\* The numeric literals a cell can hold, with the value parseFloat gives.
NumLit ==
    ("0" :> Fin(0)) @@ ("0.004" :> Fin(4)) @@ ("0.4" :> Fin(400)) @@
    ("0.9" :> Fin(900)) @@ ("1" :> Fin(1000)) @@ ("1.2" :> Fin(1200)) @@
    ("1.234" :> Fin(1234)) @@ ("2.0" :> Fin(2000)) @@ ("2.5" :> Fin(2500)) @@
    ("5.0" :> Fin(5000)) @@ ("45" :> Fin(45000)) @@ ("150" :> Fin(150000)) @@
    ("-0.5" :> Fin(-500)) @@ ("-2" :> Fin(-2000)) @@
    ("1.23" :> Fin(1230)) @@ ("2" :> Fin(2000)) @@ ("40" :> Fin(40000)) @@
    ("45.5" :> Fin(45500)) @@
    ("9999999998" :> Near(-2000)) @@ ("9999999999.5" :> Near(-500)) @@
    ("10000000000" :> Near(0)) @@ ("10000000002.5" :> Near(2500)) @@
    ("10000000004" :> Near(4000)) @@ ("10000002500" :> Near(2500000))

isNaN(x) == x.nan

parseFloat(c) == IF c \in DOMAIN NumLit THEN NumLit[c] ELSE NaN

\* startTime.match(/^\d+\.?\d*$/): an unsigned decimal literal
MatchesDigits(c) == c \in DOMAIN NumLit /\ c \notin {"-0.5", "-2"}

\* if (sessionId && ...): a string is truthy unless empty; undefined is falsy
Truthy(c) == c # "" /\ c # Undefined

\* values[index]
At(values, index) ==
    IF index >= 1 /\ index <= Len(values) THEN values[index] ELSE Undefined

\* the integer nearest to p / q (q > 0), halves away from zero: what toFixed
\* does to a decimal that is no binary rounding tie
RoundDiv(p, q) ==
    IF p >= 0 THEN (2 * p + q) \div (2 * q) ELSE -((q - 2 * p) \div (2 * q))

\* Number(x.toFixed(2)) for x = m / (1000 * d), in hundredths
ToFixed2(m, d) == RoundDiv(m, 10 * d)

\* Number((p / q).toFixed(1)) for p hundredths over q items, in tenths
ToFixed1(p, q) == RoundDiv(p, 10 * q)

\* the smaller of the two sizes
MaxAsSmaller(a, b) == IF a <= b THEN a ELSE b

Max(a, b) == IF a >= b THEN a ELSE b

Min(a, b) == IF a <= b THEN a ELSE b

-----------------------------------------------------------------------------
(* Messages.  A message string is modelled by its template (kind) and the  *)
(* values interpolated into it.                                            *)

Msg(kind, n, m, missing, headers) ==
    [kind |-> kind, n |-> n, m |-> m, missing |-> missing, headers |-> headers]

\* ''
NoMessage == Msg("", 0, 0, <<>>, <<>>)

\* the initial statistics, also what an upload resets them to
ZeroStats ==
    [totalSessions |-> 0, matchedSessions |-> 0, inflectionPoint |-> 0,
     earlySuccessRate |-> 0, lateSuccessRate |-> 0]

-----------------------------------------------------------------------------
(* fuseData.                                                               *)

\* a map whose first set of a key stays: a later record of the same id is
\* dropped
RECURSIVE awsMapFirstWins(_, _, _)
awsMapFirstWins(aws, i, map) ==
    IF i > Len(aws) THEN map
    ELSE awsMapFirstWins(aws, i + 1, map @@ (aws[i].sessionId :> aws[i]))

\* awsData.forEach(aws => awsMap.set(aws.sessionId, aws)): a later set of the
\* same key replaces the earlier one
RECURSIVE awsMapFrom(_, _, _)
awsMapFrom(aws, i, map) ==
    IF i > Len(aws) THEN map
    ELSE awsMapFrom(aws, i + 1, (aws[i].sessionId :> aws[i]) @@ map)

awsMapOf(aws) == awsMapFrom(aws, 1, <<>>)

\* a left join: a record without a match is pushed too, with length 0
RECURSIVE matchFromLeftJoin(_, _, _, _)
matchFromLeftJoin(shopify, map, i, fused) ==
    IF i > Len(shopify) THEN fused
    ELSE matchFromLeftJoin(shopify, map, i + 1,
             Append(fused,
                 [sessionId |-> shopify[i].sessionId,
                  sessionLength |->
                      IF shopify[i].sessionId \in DOMAIN map
                      THEN map[shopify[i].sessionId].sessionLength ELSE 0,
                  successRate |-> shopify[i].successRate,
                  sessionNumber |-> Len(fused) + 1]))

\* shopifyData.forEach(...): push one point per record whose id is in the map
RECURSIVE matchFrom(_, _, _, _)
matchFrom(shopify, map, i, fused) ==
    IF i > Len(shopify) THEN fused
    ELSE IF shopify[i].sessionId \in DOMAIN map
         THEN matchFrom(shopify, map, i + 1,
                  Append(fused,
                      [sessionId |-> shopify[i].sessionId,
                       sessionLength |-> map[shopify[i].sessionId].sessionLength,
                       successRate |-> shopify[i].successRate,
                       sessionNumber |-> Len(fused) + 1]))
         ELSE matchFrom(shopify, map, i + 1, fused)

\* (a, b) => a.sessionLength - b.sessionLength
compareLength(a, b) == a.sessionLength - b.sessionLength

\* the place a sort that reverses ties gives points[i]
placeTiesReversed(points, i) ==
    Cardinality({j \in DOMAIN points : compareLength(points[j], points[i]) < 0})
    + Cardinality({j \in DOMAIN points :
                      j > i /\ compareLength(points[j], points[i]) = 0})
    + 1

\* the place a stable sort gives points[i]: behind the points that compare
\* smaller, and behind the earlier points that compare equal
placeOf(points, i) ==
    Cardinality({j \in DOMAIN points : compareLength(points[j], points[i]) < 0})
    + Cardinality({j \in DOMAIN points :
                      j < i /\ compareLength(points[j], points[i]) = 0})
    + 1

\* a fusion that returns the points in the order they were pushed
sortByLengthAsPushed(points) == points

\* a sort that numbers the points by the place it gives them
sortByLengthRenumbered(points) ==
    LET place == [i \in DOMAIN points |-> placeOf(points, i)]
    IN  [p \in DOMAIN points |->
            [points[CHOOSE i \in DOMAIN points : place[i] = p]
                EXCEPT !.sessionNumber = p]]

\* Array.prototype.sort with compareLength (stable since ES2019)
sortByLength(points) ==
    LET place == [i \in DOMAIN points |-> placeOf(points, i)]
    IN  [p \in DOMAIN points |-> points[CHOOSE i \in DOMAIN points : place[i] = p]]

\* a join that pushes one point per pair of records with equal ids
fuseDataEveryPair(shopify, aws) ==
    LET pairs == [k \in 1..(Len(shopify) * Len(aws)) |->
                     <<((k - 1) \div Len(aws)) + 1, ((k - 1) % Len(aws)) + 1>>]
        equal(p) == shopify[p[1]].sessionId = aws[p[2]].sessionId
        matched == SelectSeq(pairs, equal)
    IN  sortByLength([k \in DOMAIN matched |->
            [sessionId |-> shopify[matched[k][1]].sessionId,
             sessionLength |-> aws[matched[k][2]].sessionLength,
             successRate |-> shopify[matched[k][1]].successRate,
             sessionNumber |-> k]])

\* a fusion that pushes onto the points of the previous run
fuseDataAccumulating(shopify, aws) ==
    IF Len(shopify) = 0 \/ Len(aws) = 0 THEN <<>>
    ELSE sortByLength(matchFrom(shopify, awsMapOf(aws), 1, fusedData))

fuseData(shopify, aws) ==
    IF Len(shopify) = 0 \/ Len(aws) = 0 THEN <<>>
    ELSE sortByLength(matchFrom(shopify, awsMapOf(aws), 1, <<>>))

-----------------------------------------------------------------------------
(* The statistics of generateFusionReport and loadSampleData.              *)

\* data.reduce((sum, p) => sum + p.successRate, 0)
RECURSIVE sumRate(_)
sumRate(points) ==
    IF Len(points) = 0 THEN 0
    ELSE IF Len(points) = 1 THEN points[1].successRate
    ELSE LET half == Len(points) \div 2
         IN  sumRate(SubSeq(points, 1, half))
             + sumRate(SubSeq(points, half + 1, Len(points)))

\* a split in the middle of the sequence
splitIndexHalf(n) == n \div 2

\* Math.floor(fused.length * 0.65)
splitIndex(n) == (n * 65) \div 100

\* data.length > 0 ? (data.reduce(...) / data.length).toFixed(1) : '0'
meanRate(points) ==
    IF Len(points) > 0 THEN ToFixed1(sumRate(points), Len(points)) ELSE 0

\* fused.length > 0 ? fused[k]?.sessionLength || 0 : 0, then toFixed(1)
inflectionOf(points) ==
    LET k == splitIndex(Len(points))
    IN  IF Len(points) > 0 /\ k + 1 <= Len(points)
        THEN ToFixed1(points[k + 1].sessionLength, 1) ELSE 0

\* statistics whose total is the number of fused points
statsOfMatchedOnly(points, total) ==
    LET k == splitIndex(Len(points))
    IN  [totalSessions |-> Len(points),
         matchedSessions |-> Len(points),
         inflectionPoint |-> inflectionOf(points),
         earlySuccessRate |-> meanRate(SubSeq(points, 1, k)),
         lateSuccessRate |-> meanRate(SubSeq(points, k + 1, Len(points)))]

statsOf(points, total) ==
    LET k == splitIndex(Len(points))
    IN  [totalSessions |-> total,
         matchedSessions |-> Len(points),
         inflectionPoint |-> inflectionOf(points),
         earlySuccessRate |-> meanRate(SubSeq(points, 1, k)),
         lateSuccessRate |-> meanRate(SubSeq(points, k + 1, Len(points)))]

-----------------------------------------------------------------------------
(* getSmoothedData, computed from fusedData and smoothingLevel when the     *)
(* trend view renders, and the slider that sets smoothingLevel.            *)

\* chunk.reduce((sum, p) => sum + p.sessionLength, 0)
sumLength(points) ==
    LET partial[i \in 0..Len(points)] ==
            IF i = 0 THEN 0 ELSE partial[i - 1] + points[i].sessionLength
    IN  partial[Len(points)]

\* the point pushed for the chunk that starts at the 0-based index i; the
\* averages are rounded to two decimals (half up where toFixed(2) meets a tie)
smoothedPoint(chunk, i) ==
    [sessionId |-> "smoothed_" \o ToString(i),
     sessionNumber |-> i + ((smoothingLevel + 1) \div 2),
     sessionLength |-> RoundDiv(sumLength(chunk), Len(chunk)),
     successRate |-> RoundDiv(sumRate(chunk), Len(chunk))]

\* fusedData.slice(i, i + smoothingLevel)
chunkAt(i) == SubSeq(fusedData, i + 1, Min(i + smoothingLevel, Len(fusedData)))

\* a loop that pushes a point for the chunks of smoothingLevel records only
RECURSIVE smoothFullChunksFrom(_, _)
smoothFullChunksFrom(i, smoothed) ==
    IF i >= Len(fusedData) THEN smoothed
    ELSE IF Len(chunkAt(i)) < smoothingLevel
    THEN smoothFullChunksFrom(i + smoothingLevel, smoothed)
    ELSE smoothFullChunksFrom(i + smoothingLevel,
                              Append(smoothed, smoothedPoint(chunkAt(i), i)))

\* for (let i = 0; i < fusedData.length; i += smoothingLevel)
RECURSIVE smoothFrom(_, _)
smoothFrom(i, smoothed) ==
    IF i >= Len(fusedData) THEN smoothed
    ELSE IF Len(chunkAt(i)) = 0
    THEN smoothFrom(i + smoothingLevel, smoothed)
    ELSE smoothFrom(i + smoothingLevel,
                    Append(smoothed, smoothedPoint(chunkAt(i), i)))

getSmoothedDataFullChunks ==
    IF Len(fusedData) = 0 THEN <<>> ELSE smoothFullChunksFrom(0, <<>>)

getSmoothedData ==
    IF Len(fusedData) = 0 THEN <<>> ELSE smoothFrom(0, <<>>)

\* the values of the range input: min 5, max 25
SmoothingLevels == 5..25

\* onChange of the slider: setSmoothingLevel(parseInt(e.target.value))
setSmoothingLevel(value) ==
    /\ smoothingLevel' = value
    /\ UNCHANGED <<fusedData, shopifyData, awsData, stats, shopifyUploadStatus,
                   awsUploadStatus, isReportGenerated, shopifyMessage, awsMessage,
                   fusionMessage, shopifyReaders, awsReaders, csvText, download, cli>>

-----------------------------------------------------------------------------
(* CSV text.  A text is modelled by the cells of its lines after           *)
(* csvText.trim().split('\n') and line.split(','), each cell trimmed and   *)
(* stripped of its quotes: header is line 0, rows are the lines after it.  *)
(* The optional orderId / userId / timestamp fields of a record, which     *)
(* nothing reads, are left out.                                            *)

\* headers whose spelling has capitals, with h.toLowerCase()
LowerOf ==
    ("Session ID" :> "session id") @@ ("Session Number" :> "session number") @@
    ("Session Length" :> "session length") @@ ("Success Rate" :> "success rate")

toLowerCase(h) == IF h \in DOMAIN LowerOf THEN LowerOf[h] ELSE h

headersOf(csv) == [i \in DOMAIN csv.header |-> toLowerCase(csv.header[i])]

\* the keyword fragments each modelled header contains
Fragments ==
    ("session_id" :> {"session", "id"}) @@
    ("sessionid" :> {"session", "id"}) @@
    ("session id" :> {"session", "id"}) @@
    ("session" :> {"session"}) @@
    ("id" :> {"id"}) @@
    ("success" :> {"success"}) @@
    ("success_rate" :> {"success", "rate"}) @@
    ("success rate" :> {"success", "rate"}) @@
    ("session_length" :> {"session", "length"}) @@
    ("session length" :> {"session", "length"}) @@
    ("session number" :> {"session"}) @@
    ("duration" :> {"duration"}) @@
    ("length" :> {"length"}) @@
    ("start_timestamp" :> {"timestamp", "time", "start"}) @@
    ("end_timestamp" :> {"timestamp", "time", "end"}) @@
    ("start" :> {"start"}) @@
    ("end" :> {"end"}) @@
    ("order_id" :> {"id", "order"}) @@
    ("user_id" :> {"id", "user"}) @@
    ("timestamp" :> {"timestamp", "time"}) @@
    ("value" :> {}) @@
    ("date" :> {"date"}) @@
    ("" :> {})

\* h.includes(fragment)
includes(h, fragment) == h \in DOMAIN Fragments /\ fragment \in Fragments[h]

\* the header cells a file can carry
KnownHeaders == DOMAIN Fragments

\* headers.findIndex(test): the 0-based index of the first match, or -1; the
\* test is given as the set of headers it accepts
findIndex(headers, test) ==
    LET hits == {i \in DOMAIN headers : headers[i] \in test}
    IN  IF hits = {} THEN -1
        ELSE (CHOOSE i \in hits : \A j \in hits : i <= j) - 1

\* a read that pads a row that is too short with the cell 0
CellPadded(values, index) ==
    IF index < 0 \/ index + 1 > Len(values) THEN "0" ELSE values[index + 1]

\* values[index] for a 0-based index
Cell(values, index) == At(values, index + 1)

Ok(data) == [ok |-> TRUE, data |-> data, error |-> NoMessage]

Thrown(message) == [ok |-> FALSE, data |-> <<>>, error |-> message]

-----------------------------------------------------------------------------
(* parseShopifyCSV.                                                        *)

isShopifySessionId(h) ==
    \/ h \in {"session_id", "sessionid", "session-id"}
    \/ (includes(h, "session") /\ includes(h, "id"))

isSuccessRate(h) ==
    \/ h \in {"success_rate", "successrate", "success-rate", "success_percent",
              "success_percentage", "success"}
    \/ (includes(h, "success") /\ (includes(h, "rate") \/ includes(h, "percent")))
    \/ includes(h, "success")

\* a normalisation that keeps the rate as parsed
normalizeAsParsed(rate) == ToFixed2(rate.m, 1)

\* successRate <= 1 ? successRate * 100 : successRate, then
\* Number(normalizedSuccessRate.toFixed(2)); in hundredths
normalizeSuccessRate(rate) ==
    IF rate.e = 0 /\ rate.m <= 1000
    THEN ToFixed2(rate.m * 100, 1) ELSE ToFixed2(rate.m, 1)

\* a row loop that stops at the first row it cannot turn into a record
RECURSIVE shopifyRowsUntilDefect(_, _, _, _, _)
shopifyRowsUntilDefect(rows, i, sessionIdIndex, successRateIndex, data) ==
    IF i > Len(rows) THEN data
    ELSE LET values == rows[i]
             sessionId == Cell(values, sessionIdIndex)
             successRate == parseFloat(Cell(values, successRateIndex))
         IN  IF Len(values) >= 2 /\ Truthy(sessionId) /\ ~isNaN(successRate)
             THEN shopifyRowsUntilDefect(rows, i + 1, sessionIdIndex, successRateIndex,
                      Append(data, [sessionId |-> sessionId,
                                    successRate |-> normalizeSuccessRate(successRate)]))
             ELSE data

RECURSIVE shopifyRowsFrom(_, _, _, _, _)
shopifyRowsFrom(rows, i, sessionIdIndex, successRateIndex, data) ==
    IF i > Len(rows) THEN data
    ELSE LET values == rows[i]
             sessionId == Cell(values, sessionIdIndex)
             successRate == parseFloat(Cell(values, successRateIndex))
         IN  IF Len(values) < 2
             THEN shopifyRowsFrom(rows, i + 1, sessionIdIndex, successRateIndex, data)
             ELSE IF Truthy(sessionId) /\ ~isNaN(successRate)
             THEN shopifyRowsFrom(rows, i + 1, sessionIdIndex, successRateIndex,
                      Append(data, [sessionId |-> sessionId,
                                    successRate |-> normalizeSuccessRate(successRate)]))
             ELSE shopifyRowsFrom(rows, i + 1, sessionIdIndex, successRateIndex, data)

\* a parser whose error names the first absent column only
parseShopifyCSVFirstMissing(csv) ==
    LET headers == headersOf(csv)
        sessionIdIndex == findIndex(headers, {h \in KnownHeaders : isShopifySessionId(h)})
        successRateIndex == findIndex(headers, {h \in KnownHeaders : isSuccessRate(h)})
        missingColumns ==
            IF sessionIdIndex = -1 THEN <<"session_id">>
            ELSE <<"success or success_rate">>
        data == shopifyRowsFrom(csv.rows, 1, sessionIdIndex, successRateIndex, <<>>)
    IN  IF 1 + Len(csv.rows) < 2
        THEN Thrown(Msg("Shopify CSV must have at least a header row and one data row",
                        0, 0, <<>>, <<>>))
        ELSE IF sessionIdIndex = -1 \/ successRateIndex = -1
        THEN Thrown(Msg("Missing required columns", 0, 0, missingColumns, headers))
        ELSE IF Len(data) = 0
        THEN Thrown(Msg("No valid Shopify data rows found in CSV", 0, 0, <<>>, <<>>))
        ELSE Ok(data)

\* a parser that does not count the lines before it resolves the columns
parseShopifyCSVUncounted(csv) ==
    LET headers == headersOf(csv)
        sessionIdIndex == findIndex(headers, {h \in KnownHeaders : isShopifySessionId(h)})
        successRateIndex == findIndex(headers, {h \in KnownHeaders : isSuccessRate(h)})
        missingColumns ==
            (IF sessionIdIndex = -1 THEN <<"session_id">> ELSE <<>>) \o
            (IF successRateIndex = -1 THEN <<"success or success_rate">> ELSE <<>>)
        data == shopifyRowsFrom(csv.rows, 1, sessionIdIndex, successRateIndex, <<>>)
    IN  IF sessionIdIndex = -1 \/ successRateIndex = -1
        THEN Thrown(Msg("Missing required columns", 0, 0, missingColumns, headers))
        ELSE IF Len(data) = 0
        THEN Thrown(Msg("No valid Shopify data rows found in CSV", 0, 0, <<>>, <<>>))
        ELSE Ok(data)

parseShopifyCSV(csv) ==
    LET headers == headersOf(csv)
        sessionIdIndex == findIndex(headers, {h \in KnownHeaders : isShopifySessionId(h)})
        successRateIndex == findIndex(headers, {h \in KnownHeaders : isSuccessRate(h)})
        missingColumns ==
            (IF sessionIdIndex = -1 THEN <<"session_id">> ELSE <<>>) \o
            (IF successRateIndex = -1 THEN <<"success or success_rate">> ELSE <<>>)
        data == shopifyRowsFrom(csv.rows, 1, sessionIdIndex, successRateIndex, <<>>)
    IN  IF 1 + Len(csv.rows) < 2
        THEN Thrown(Msg("Shopify CSV must have at least a header row and one data row",
                        0, 0, <<>>, <<>>))
        ELSE IF sessionIdIndex = -1 \/ successRateIndex = -1
        THEN Thrown(Msg("Missing required columns", 0, 0, missingColumns, headers))
        ELSE IF Len(data) = 0
        THEN Thrown(Msg("No valid Shopify data rows found in CSV", 0, 0, <<>>, <<>>))
        ELSE Ok(data)

-----------------------------------------------------------------------------
(* parseAWSCSV.                                                            *)

isAwsSessionId(h) ==
    \/ h \in {"session_id", "sessionid", "session-id"}
    \/ (includes(h, "session") /\ includes(h, "id"))
    \/ h \in {"session", "id"}

isSessionLength(h) ==
    \/ h \in {"session_length", "sessionlength", "session-length",
              "session_duration", "duration", "length"}
    \/ (includes(h, "session") /\ (includes(h, "length") \/ includes(h, "duration")))
    \/ includes(h, "duration")
    \/ includes(h, "length")

isStartTimestamp(h) ==
    \/ (includes(h, "start") /\ (includes(h, "timestamp") \/ includes(h, "time")))
    \/ h \in {"start_timestamp", "starttime", "start_time", "start",
              "begin_timestamp", "begin_time"}

isEndTimestamp(h) ==
    \/ (includes(h, "end") /\ (includes(h, "timestamp") \/ includes(h, "time")))
    \/ h \in {"end_timestamp", "endtime", "end_time", "end",
              "finish_timestamp", "finish_time"}

\* the date-time strings of the model that have a space for the 'T', with
\* time.replace(' ', 'T')
SpaceToT ==
    ("2024-01-01 10:00:00" :> "2024-01-01T10:00:00") @@
    ("2024-01-01 10:00:02" :> "2024-01-01T10:00:02")

\* time.includes('T') ? time : time.replace(' ', 'T')
normalizeTime(time) == IF time \in DOMAIN SpaceToT THEN SpaceToT[time] ELSE time

\* new Date(s).getTime() of the date-time strings that parse, in milliseconds
\* counted from 2024-01-01T10:00:00 local time
DateTime ==
    ("2024-01-01T10:00:00" :> 0) @@ ("2024-01-01T10:00:02" :> 2000) @@
    ("2024-01-01T10:00:02.500" :> 2500) @@ ("2024-01-01T10:00:00.004" :> 4)

\* a length of m / (1000 * d) seconds above e * 10^10 seconds, or a skipped row
Length(e, m, d) == [skip |-> FALSE, nan |-> FALSE, e |-> e, m |-> m, d |-> d]

SkipRow == [skip |-> TRUE, nan |-> FALSE, e |-> 0, m |-> 0, d |-> 1]

\* a try block that scales each number by its own magnitude: seconds below
\* 1e10, milliseconds from 1e10 on (a difference across the two units is
\* given by its sign only: above 1e10 seconds, or negative)
lengthFromTimestampsIndependent(startTime, endTime) ==
    LET startNum == parseFloat(startTime)
        endNum == parseFloat(endTime)
        startSeconds == startNum.e = 0 \/ startNum.m < 0
        endSeconds == endNum.e = 0 \/ endNum.m < 0
    IN  IF /\ ~isNaN(startNum) /\ ~isNaN(endNum)
           /\ MatchesDigits(startTime) /\ MatchesDigits(endTime)
        THEN IF startSeconds /\ endSeconds
             THEN Length(endNum.e - startNum.e, endNum.m - startNum.m, 1)
             ELSE IF ~startSeconds /\ ~endSeconds
             THEN Length(endNum.e - startNum.e, endNum.m - startNum.m, 1000)
             ELSE IF startSeconds
             THEN (IF startNum.e = 1 THEN Length(-1, 0, 1) ELSE Length(1, 0, 1))
             ELSE (IF endNum.e = 1 THEN Length(1, 0, 1) ELSE Length(-1, 0, 1))
        ELSE IF \/ startTime = Undefined \/ endTime = Undefined
                \/ normalizeTime(startTime) \notin DOMAIN DateTime
                \/ normalizeTime(endTime) \notin DOMAIN DateTime
        THEN SkipRow
        ELSE Length(0, DateTime[normalizeTime(endTime)]
                       - DateTime[normalizeTime(startTime)], 1)

\* the try block of the timestamp path: the session length, or the row is
\* skipped when it throws
lengthFromTimestamps(startTime, endTime) ==
    LET startNum == parseFloat(startTime)
        endNum == parseFloat(endTime)
    IN  IF /\ ~isNaN(startNum) /\ ~isNaN(endNum)
           /\ MatchesDigits(startTime) /\ MatchesDigits(endTime)
        THEN IF startNum.e = 0 \/ startNum.m < 0
             \* startNum < 1e10: (endNum * 1000 - startNum * 1000) / 1000
             THEN Length(endNum.e - startNum.e, endNum.m - startNum.m, 1)
             \* (endNum - startNum) / 1000
             ELSE Length(endNum.e - startNum.e, endNum.m - startNum.m, 1000)
        ELSE IF \/ startTime = Undefined \/ endTime = Undefined
                \/ normalizeTime(startTime) \notin DOMAIN DateTime
                \/ normalizeTime(endTime) \notin DOMAIN DateTime
        \* a TypeError on undefined, or 'Invalid ISO timestamp format'
        THEN SkipRow
        ELSE Length(0, DateTime[normalizeTime(endTime)]
                       - DateTime[normalizeTime(startTime)], 1)

\* the session length of a row on either path
lengthOfRow(values, sessionLengthIndex, startTimestampIndex, endTimestampIndex) ==
    IF sessionLengthIndex >= 0
    THEN LET x == parseFloat(Cell(values, sessionLengthIndex))
         IN  [skip |-> FALSE, nan |-> x.nan, e |-> x.e, m |-> x.m, d |-> 1]
    ELSE lengthFromTimestamps(Cell(values, startTimestampIndex),
                              Cell(values, endTimestampIndex))

\* sessionLength > 0
isPositive(length) == length.e > 0 \/ (length.e = 0 /\ length.m > 0)

\* a stored length that is cut to whole seconds
storedWholeSeconds(length) == (length.m \div (1000 * length.d)) * 100

\* Number(sessionLength.toFixed(2)), in hundredths
storedLength(length) == ToFixed2(length.m, length.d)

RECURSIVE awsRowsFrom(_, _, _, _, _, _, _)
awsRowsFrom(rows, i, sessionIdIndex, sessionLengthIndex, startTimestampIndex, endTimestampIndex, data) ==
    IF i > Len(rows) THEN data
    ELSE LET values == rows[i]
             sessionId == Cell(values, sessionIdIndex)
             sessionLength == lengthOfRow(values, sessionLengthIndex,
                                          startTimestampIndex, endTimestampIndex)
             rest(d) == awsRowsFrom(rows, i + 1, sessionIdIndex, sessionLengthIndex,
                                    startTimestampIndex, endTimestampIndex, d)
         IN  IF Len(values) < 2 \/ sessionLength.skip
             THEN rest(data)
             ELSE IF Truthy(sessionId) /\ ~sessionLength.nan /\ isPositive(sessionLength)
             THEN rest(Append(data, [sessionId |-> sessionId,
                                     sessionLength |-> storedLength(sessionLength)]))
             ELSE rest(data)

\* a parser that is content with one of the two timestamp columns
parseAWSCSVEitherTimestamp(csv) ==
    LET headers == headersOf(csv)
        sessionIdIndex == findIndex(headers, {h \in KnownHeaders : isAwsSessionId(h)})
        sessionLengthIndex == findIndex(headers, {h \in KnownHeaders : isSessionLength(h)})
        startTimestampIndex ==
            IF sessionLengthIndex = -1
            THEN findIndex(headers, {h \in KnownHeaders : isStartTimestamp(h)})
            ELSE -1
        endTimestampIndex ==
            IF sessionLengthIndex = -1
            THEN findIndex(headers, {h \in KnownHeaders : isEndTimestamp(h)})
            ELSE -1
        noLength ==
            sessionLengthIndex = -1 /\ (startTimestampIndex = -1 /\ endTimestampIndex = -1)
        missingColumns ==
            (IF sessionIdIndex = -1 THEN <<"session_id (or similar)">> ELSE <<>>) \o
            (IF noLength
             THEN <<"session_length OR (start_timestamp AND end_timestamp)">> ELSE <<>>)
        data == awsRowsFrom(csv.rows, 1, sessionIdIndex, sessionLengthIndex,
                            startTimestampIndex, endTimestampIndex, <<>>)
    IN  IF 1 + Len(csv.rows) < 2
        THEN Thrown(Msg("AWS CSV must have at least a header row and one data row",
                        0, 0, <<>>, <<>>))
        ELSE IF sessionIdIndex = -1 \/ noLength
        THEN Thrown(Msg("Cannot find required columns", 0, 0, missingColumns, headers))
        ELSE IF Len(data) = 0
        THEN Thrown(Msg("No valid AWS data rows found in CSV", 0, 0, <<>>, <<>>))
        ELSE Ok(data)

parseAWSCSV(csv) ==
    LET headers == headersOf(csv)
        sessionIdIndex == findIndex(headers, {h \in KnownHeaders : isAwsSessionId(h)})
        sessionLengthIndex == findIndex(headers, {h \in KnownHeaders : isSessionLength(h)})
        startTimestampIndex ==
            IF sessionLengthIndex = -1
            THEN findIndex(headers, {h \in KnownHeaders : isStartTimestamp(h)})
            ELSE -1
        endTimestampIndex ==
            IF sessionLengthIndex = -1
            THEN findIndex(headers, {h \in KnownHeaders : isEndTimestamp(h)})
            ELSE -1
        noLength ==
            sessionLengthIndex = -1 /\ (startTimestampIndex = -1 \/ endTimestampIndex = -1)
        missingColumns ==
            (IF sessionIdIndex = -1 THEN <<"session_id (or similar)">> ELSE <<>>) \o
            (IF noLength
             THEN <<"session_length OR (start_timestamp AND end_timestamp)">> ELSE <<>>)
        data == awsRowsFrom(csv.rows, 1, sessionIdIndex, sessionLengthIndex,
                            startTimestampIndex, endTimestampIndex, <<>>)
    IN  IF 1 + Len(csv.rows) < 2
        THEN Thrown(Msg("AWS CSV must have at least a header row and one data row",
                        0, 0, <<>>, <<>>))
        ELSE IF sessionIdIndex = -1 \/ noLength
        THEN Thrown(Msg("Cannot find required columns", 0, 0, missingColumns, headers))
        ELSE IF Len(data) = 0
        THEN Thrown(Msg("No valid AWS data rows found in CSV", 0, 0, <<>>, <<>>))
        ELSE Ok(data)

-----------------------------------------------------------------------------
(* generateFusionReport, the handler of the Generate Analysis button.      *)

\* a handler that publishes the fusion without looking at its length
generateFusionReportUnchecked ==
    IF Len(shopifyData) = 0 \/ Len(awsData) = 0
    THEN /\ fusionMessage' = Msg("Both Shopify and AWS data must be uploaded",
                                 0, 0, <<>>, <<>>)
         /\ UNCHANGED <<fusedData, stats, isReportGenerated>>
    ELSE LET fused == fuseData(shopifyData, awsData)
         IN  /\ fusedData' = fused
             /\ stats' = statsOf(fused, Max(Len(shopifyData), Len(awsData)))
             /\ isReportGenerated' = TRUE
             /\ fusionMessage' = Msg("Fusion report generated", Len(fused),
                                     Max(Len(shopifyData), Len(awsData)),
                                     <<>>, <<>>)

generateFusionReport ==
    IF Len(shopifyData) = 0 \/ Len(awsData) = 0
    THEN /\ fusionMessage' = Msg("Both Shopify and AWS data must be uploaded",
                                 0, 0, <<>>, <<>>)
         /\ UNCHANGED <<fusedData, stats, isReportGenerated>>
    ELSE LET fused == fuseData(shopifyData, awsData)
         IN  IF Len(fused) = 0
             THEN /\ fusionMessage' = Msg("No matching sessions found",
                                          Len(shopifyData), Len(awsData), <<>>, <<>>)
                  /\ UNCHANGED <<fusedData, stats, isReportGenerated>>
             ELSE /\ fusedData' = fused
                  /\ stats' = statsOf(fused, Max(Len(shopifyData), Len(awsData)))
                  /\ isReportGenerated' = TRUE
                  /\ fusionMessage' = Msg("Fusion report generated", Len(fused),
                                          Max(Len(shopifyData), Len(awsData)),
                                          <<>>, <<>>)

GenerateFusionReport ==
    /\ generateFusionReport
    /\ UNCHANGED <<shopifyData, awsData, shopifyUploadStatus, awsUploadStatus,
                   shopifyMessage, awsMessage, shopifyReaders, awsReaders, csvText,
                   smoothingLevel, download, cli>>

-----------------------------------------------------------------------------
(* The upload handlers.  A file is its name and its text; a FileReader in  *)
(* flight is the text it will deliver.                                     *)

\* file.name.toLowerCase().endsWith('.csv')
isCsvName(name) == name \in {"shopify.csv", "aws.csv", "EXPORT.CSV"}

\* event.target.files?.[0] of a change event without a file
NoFile == [name |-> "", text |-> [header |-> <<>>, rows |-> <<>>]]

NoText == [source |-> "none", text |-> [header |-> <<>>, rows |-> <<>>]]

\* no file has been exported
NoDownload == [header |-> <<>>, rows |-> <<>>]

handleShopifyUpload(file) ==
    IF file = NoFile
    THEN UNCHANGED vars
    ELSE IF ~isCsvName(file.name)
    THEN /\ shopifyUploadStatus' = "error"
         /\ shopifyMessage' = Msg("Please upload a CSV file", 0, 0, <<>>, <<>>)
         /\ UNCHANGED <<fusedData, shopifyData, awsData, stats, awsUploadStatus,
                        isReportGenerated, awsMessage, fusionMessage,
                        shopifyReaders, awsReaders, csvText,
                        smoothingLevel, download, cli>>
    ELSE /\ fusedData' = <<>>
         /\ isReportGenerated' = FALSE
         /\ fusionMessage' = NoMessage
         /\ stats' = ZeroStats
         /\ shopifyUploadStatus' = "uploading"
         /\ shopifyMessage' = NoMessage
         /\ shopifyReaders' = shopifyReaders \cup {file.text}
         /\ UNCHANGED <<shopifyData, awsData, awsUploadStatus, awsMessage,
                        awsReaders, csvText,
                        smoothingLevel, download, cli>>

\* the handler of a parse that threw, had it also dropped the loaded records
shopifyOnloadClearing(text) ==
    LET parsed == parseShopifyCSV(text)
    IN  /\ shopifyReaders' = shopifyReaders \ {text}
        /\ csvText' = [source |-> "shopify", text |-> text]
        /\ UNCHANGED <<smoothingLevel, download, cli>>
        /\ shopifyData' = parsed.data
        /\ shopifyUploadStatus' = IF parsed.ok THEN "success" ELSE "error"
        /\ shopifyMessage' =
              IF parsed.ok
              THEN Msg("Successfully loaded", Len(parsed.data), 0, <<>>, <<>>)
              ELSE parsed.error
        /\ UNCHANGED <<fusedData, awsData, stats, awsUploadStatus,
                       isReportGenerated, awsMessage, fusionMessage, awsReaders>>

\* reader.onload of handleShopifyUpload
shopifyOnload(text) ==
    LET parsed == parseShopifyCSV(text)
    IN  /\ shopifyReaders' = shopifyReaders \ {text}
        /\ csvText' = [source |-> "shopify", text |-> text]
        /\ UNCHANGED <<smoothingLevel, download, cli>>
        /\ IF parsed.ok
           THEN /\ shopifyData' = parsed.data
                /\ shopifyUploadStatus' = "success"
                /\ shopifyMessage' =
                      Msg("Successfully loaded", Len(parsed.data), 0, <<>>, <<>>)
           ELSE /\ shopifyUploadStatus' = "error"
                /\ shopifyMessage' = parsed.error
                /\ UNCHANGED shopifyData
        /\ UNCHANGED <<fusedData, awsData, stats, awsUploadStatus,
                       isReportGenerated, awsMessage, fusionMessage, awsReaders>>

\* a reader.onerror that reports nothing
shopifyOnerrorSilent(text) ==
    /\ shopifyReaders' = shopifyReaders \ {text}
    /\ UNCHANGED <<fusedData, shopifyData, awsData, stats, shopifyUploadStatus,
                   awsUploadStatus, isReportGenerated, shopifyMessage, awsMessage,
                   fusionMessage, awsReaders, csvText, smoothingLevel, download, cli>>

\* reader.onerror of handleShopifyUpload
shopifyOnerror(text) ==
    /\ shopifyReaders' = shopifyReaders \ {text}
    /\ shopifyUploadStatus' = "error"
    /\ shopifyMessage' = Msg("Error reading file", 0, 0, <<>>, <<>>)
    /\ UNCHANGED <<fusedData, shopifyData, awsData, stats, awsUploadStatus,
                   isReportGenerated, awsMessage, fusionMessage, awsReaders,
                   csvText,
                   smoothingLevel, download, cli>>

handleAWSUpload(file) ==
    IF file = NoFile
    THEN UNCHANGED vars
    ELSE IF ~isCsvName(file.name)
    THEN /\ awsUploadStatus' = "error"
         /\ awsMessage' = Msg("Please upload a CSV file", 0, 0, <<>>, <<>>)
         /\ UNCHANGED <<fusedData, shopifyData, awsData, stats,
                        shopifyUploadStatus, isReportGenerated, shopifyMessage,
                        fusionMessage, shopifyReaders, awsReaders, csvText,
                        smoothingLevel, download, cli>>
    ELSE /\ fusedData' = <<>>
         /\ isReportGenerated' = FALSE
         /\ fusionMessage' = NoMessage
         /\ stats' = ZeroStats
         /\ awsUploadStatus' = "uploading"
         /\ awsMessage' = NoMessage
         /\ awsReaders' = awsReaders \cup {file.text}
         /\ UNCHANGED <<shopifyData, awsData, shopifyUploadStatus,
                        shopifyMessage, shopifyReaders, csvText,
                        smoothingLevel, download, cli>>

\* reader.onload of handleAWSUpload
awsOnload(text) ==
    LET parsed == parseAWSCSV(text)
    IN  /\ awsReaders' = awsReaders \ {text}
        /\ csvText' = [source |-> "aws", text |-> text]
        /\ UNCHANGED <<smoothingLevel, download, cli>>
        /\ IF parsed.ok
           THEN /\ awsData' = parsed.data
                /\ awsUploadStatus' = "success"
                /\ awsMessage' =
                      Msg("Successfully loaded", Len(parsed.data), 0, <<>>, <<>>)
           ELSE /\ awsUploadStatus' = "error"
                /\ awsMessage' = parsed.error
                /\ UNCHANGED awsData
        /\ UNCHANGED <<fusedData, shopifyData, stats, shopifyUploadStatus,
                       isReportGenerated, shopifyMessage, fusionMessage,
                       shopifyReaders>>

\* reader.onerror of handleAWSUpload
awsOnerror(text) ==
    /\ awsReaders' = awsReaders \ {text}
    /\ awsUploadStatus' = "error"
    /\ awsMessage' = Msg("Error reading file", 0, 0, <<>>, <<>>)
    /\ UNCHANGED <<fusedData, shopifyData, awsData, stats, shopifyUploadStatus,
                   isReportGenerated, shopifyMessage, fusionMessage,
                   shopifyReaders, csvText,
                   smoothingLevel, download, cli>>

-----------------------------------------------------------------------------
(* loadSampleData, the handler of the Demo Data button.                    *)

\* the sessions generateSampleData makes
SampleCount == 200

\* 10000 * baseSuccessRate of session i = 1..200, rounded
BaseRate ==
    <<9198, 9170, 9143, 9119, 9095, 9074, 9053, 9033, 9014, 8995,
       8978, 8961, 8944, 8928, 8912, 8897, 8882, 8868, 8853, 8839,
       8826, 8812, 8799, 8786, 8774, 8761, 8749, 8737, 8725, 8714,
       8702, 8691, 8680, 8669, 8658, 8647, 8637, 8626, 8616, 8606,
       8595, 8585, 8576, 8566, 8556, 8547, 8537, 8528, 8518, 8509,
       8500, 6837, 6680, 6527, 6378, 6234, 6094, 5958, 5826, 5699,
       5575, 5454, 5337, 5224, 5114, 5007, 4903, 4803, 4705, 4610,
       4518, 4429, 4343, 4259, 4177, 4098, 4021, 3947, 3874, 3804,
       3736, 3670, 3606, 3544, 3483, 3425, 3368, 3313, 3259, 3207,
       3157, 3108, 3060, 3014, 2969, 2926, 2884, 2843, 2803, 2765,
       2727, 2691, 2656, 2622, 2588, 2556, 2525, 2495, 2465, 2437,
       2409, 2382, 2356, 2331, 2306, 2283, 2259, 2237, 2215, 2194,
       2174, 2154, 2134, 2116, 2097, 2080, 2063, 2046, 2030, 2014,
       1999, 1984, 1970, 1956, 1943, 1929, 1917, 1904, 1892, 1881,
       1870, 1859, 1848, 1838, 1828, 1818, 1809, 1800, 1791, 1782,
       1774, 1766, 1758, 1750, 1743, 1736, 1729, 1722, 1715, 1709,
       1703, 1697, 1691, 1685, 1680, 1675, 1669, 1664, 1660, 1655,
       1650, 1646, 1642, 1637, 1633, 1629, 1626, 1622, 1618, 1615,
       1611, 1608, 1605, 1602, 1599, 1596, 1593, 1590, 1588, 1585,
       1582, 1580, 1578, 1575, 1573, 1571, 1569, 1567, 1565, 1563>>

\* (Math.random() - 0.5) * 0.12, in 1/10000: Math.random() is in [0, 1); the
\* draws modelled are 0 and 0.5, the same for every session of one load
SampleNoise == {-600, 0}

\* generateSampleData, given the noise drawn
generateSampleData(noise) ==
    [i \in 1..SampleCount |->
        [sessionId |-> "session_" \o ToString(i),
         sessionNumber |-> i,
         \* Number((0.5 + (i - 1) * 0.1).toFixed(2))
         sessionLength |-> 50 + (i - 1) * 10,
         \* Number((Math.max(0.02, Math.min(0.98, base + noise)) * 100).toFixed(2))
         successRate |-> Max(200, Min(9800, BaseRate[i] + noise))]]

\* what loadSampleData sets: the sorted sample and its statistics
SampleLoads ==
    [noise \in SampleNoise |->
        LET sortedData == sortByLength(generateSampleData(noise))
        IN  [fusedData |-> sortedData,
             stats |-> statsOf(sortedData, Len(sortedData))]]

loadSampleData(noise) ==
    /\ fusedData' = SampleLoads[noise].fusedData
    /\ shopifyUploadStatus' = "idle"
    /\ awsUploadStatus' = "idle"
    /\ isReportGenerated' = TRUE
    /\ stats' = SampleLoads[noise].stats
    /\ UNCHANGED <<shopifyData, awsData, shopifyMessage, awsMessage,
                   fusionMessage, shopifyReaders, awsReaders, csvText,
                   smoothingLevel, download, cli>>

-----------------------------------------------------------------------------
(* exportData, the handler of the Export button (disabled while there is   *)
(* no fused record).  The exported file is the text its Blob holds.        *)

\* `${n}` of a stored successRate or sessionLength, given in hundredths
NumberString ==
    (0 :> "0") @@ (40 :> "0.4") @@ (123 :> "1.23") @@ (200 :> "2") @@
    (4000 :> "40") @@ (4550 :> "45.5")

\* `${row.sessionId},${row.sessionNumber},${row.sessionLength},${row.successRate}`
exportRow(row) ==
    <<row.sessionId, ToString(row.sessionNumber), NumberString[row.sessionLength],
      NumberString[row.successRate]>>

exportData ==
    /\ fusedData # <<>>
    /\ download' =
          [header |-> <<"Session ID", "Session Number", "Session Length",
                        "Success Rate">>,
           rows |-> [i \in DOMAIN fusedData |-> exportRow(fusedData[i])]]
    /\ UNCHANGED <<fusedData, shopifyData, awsData, stats, shopifyUploadStatus,
                   awsUploadStatus, isReportGenerated, shopifyMessage, awsMessage,
                   fusionMessage, shopifyReaders, awsReaders, csvText,
                   smoothingLevel, cli>>

-----------------------------------------------------------------------------
(* The synthetic-data CLI, sample_data_generator_cli.cjs.  A run is the    *)
(* value of cli: where main stands (pc), the value process.argv gives to   *)
(* each flag, the options of parseArgs, the data generated, the files      *)
(* written and the exit code of the process.                               *)

\* a flag that is not on the command line
Absent == "<absent>"

\* the process has not exited
Running == -1

Whole(n) == [nan |-> FALSE, n |-> n]

\* the arguments parseInt turns into an integer: it reads the leading digits
ParseIntLit ==
    ("0" :> 0) @@ ("2" :> 2) @@ ("3" :> 3) @@ ("-5" :> -5) @@ ("10001" :> 10001)

\* parseInt(s); NaN for any other argument and for undefined
parseInt(s) == IF s \in DOMAIN ParseIntLit THEN Whole(ParseIntLit[s]) ELSE [nan |-> TRUE, n |-> 0]

\* the options parseArgs starts from; noise is 0.15
DefaultOptions ==
    [type |-> "both", sessions |-> Whole(200), output |-> Absent,
     noise |-> Fin(150), pattern |-> "curved", inflection |-> Whole(130),
     help |-> FALSE]

\* no data generated
NoData ==
    [aws |-> [header |-> <<>>, rows |-> <<>>],
     shopify |-> [header |-> <<>>, rows |-> <<>>]]

\* no file written
NoFiles == <<>>

NoCli ==
    [pc |-> "none", argv |-> <<>>, options |-> DefaultOptions, data |-> NoData,
     files |-> NoFiles, exitCode |-> Running]

\* the state variables of the component, which a run of the CLI leaves alone
component ==
    <<fusedData, shopifyData, awsData, stats, shopifyUploadStatus,
      awsUploadStatus, isReportGenerated, shopifyMessage, awsMessage,
      fusionMessage, shopifyReaders, awsReaders, csvText, smoothingLevel,
      download>>

\* the switch of parseArgs over the flags given
optionsOf(argv) ==
    [type |-> IF argv.type = Absent THEN DefaultOptions.type ELSE argv.type,
     sessions |-> IF argv.sessions = Absent THEN DefaultOptions.sessions
                  ELSE parseInt(argv.sessions),
     output |-> argv.output,
     noise |-> IF argv.noise = Absent THEN DefaultOptions.noise
               ELSE parseFloat(argv.noise),
     pattern |-> IF argv.pattern = Absent THEN DefaultOptions.pattern
                 ELSE argv.pattern,
     inflection |-> IF argv.inflection = Absent THEN DefaultOptions.inflection
                    ELSE parseInt(argv.inflection),
     help |-> argv.help]

\* parseArgs: an argument that starts with '-' and is no flag ends the
\* process with code 1
parseArgs ==
    /\ cli.pc = "start"
    /\ IF cli.argv.unknown
       THEN cli' = [cli EXCEPT !.pc = "exited", !.exitCode = 1]
       ELSE cli' = [cli EXCEPT !.pc = "main", !.options = optionsOf(cli.argv)]
    /\ UNCHANGED component

\* options.sessions < 1 || options.sessions > 10000: false for NaN
sessionsOutOfRange(sessions) ==
    ~sessions.nan /\ (sessions.n < 1 \/ sessions.n > 10000)

\* options.noise < 0 || options.noise > 1: false for NaN
noiseOutOfRange(noise) ==
    ~noise.nan /\ (noise.e > 0 \/ noise.m < 0 \/ noise.m > 1000)

\* main up to the end of its validation: help returns, an invalid option
\* exits with code 1
validate ==
    /\ cli.pc = "main"
    /\ IF cli.options.help
       THEN cli' = [cli EXCEPT !.pc = "exited", !.exitCode = 0]
       ELSE IF \/ cli.options.type \notin {"aws", "shopify", "both"}
               \/ sessionsOutOfRange(cli.options.sessions)
               \/ noiseOutOfRange(cli.options.noise)
               \/ cli.options.pattern \notin {"linear", "curved"}
       THEN cli' = [cli EXCEPT !.pc = "exited", !.exitCode = 1]
       ELSE cli' = [cli EXCEPT !.pc = "validated"]
    /\ UNCHANGED component

\* the values of Math.random() modelled, in thousandths: 0, 0.5 and 0.995
Draws == {0, 500, 995}

\* the c-th call of Math.random() in a run whose values repeat as the stream
randomOf(stream, c) == stream[((c - 1) % Len(stream)) + 1]

Digits(n) ==
    IF n < 10 THEN 1 ELSE IF n < 100 THEN 2 ELSE IF n < 1000 THEN 3
    ELSE IF n < 10000 THEN 4 ELSE IF n < 100000 THEN 5 ELSE 6

\* String(n).padStart(width, '0') for 0 <= n < 1000000 and width <= 6
padStart(n, width) ==
    IF Digits(n) >= width THEN ToString(n)
    ELSE <<"", "0", "00", "000", "0000", "00000">>[width - Digits(n) + 1]
            \o ToString(n)

\* `USER_${String(Math.floor(Math.random() * 9999)).padStart(4, '0')}`
userIdOf(draw) == "USER_" \o padStart((draw * 9999) \div 1000, 4)

\* `SESS_${String(i).padStart(6, '0')}`
sessionIdOf(i) == "SESS_" \o padStart(i, 6)

baseTimestamp == 1724515200

\* the iterations of for (let i = 1; i <= options.sessions; i++): none when
\* options.sessions is NaN
iterations(options) ==
    IF options.sessions.nan \/ options.sessions.n < 1 THEN 0 ELSE options.sessions.n

\* the AWS line of session i. The cells are kept as the numbers printed:
\* startTimestamp, and endTimestamp.toFixed(1) as its whole part and tenth,
\* for startTimestamp + 1.0 + (i - 1) * 0.2
awsLine(userId, i) ==
    LET startTimestamp == baseTimestamp + (i - 1) * 60
    IN  [user_id |-> userId,
         session_id |-> sessionIdOf(i),
         start_timestamp |-> startTimestamp,
         end_timestamp |->
             [whole |-> startTimestamp + 1 + ((i - 1) \div 5),
              tenth |-> 2 * ((i - 1) % 5)]]

\* Math.random() < successRate ? 1 : 0.  Up to the inflection session the
\* rate is between 0.55 and 0.99 for both patterns (NaN for session 1 when
\* the inflection is 1), after it 0.05
expectedSuccess(options, i, draw) ==
    IF ~options.inflection.nan /\ i <= options.inflection.n
    THEN IF options.inflection.n = 1 THEN 0
         ELSE IF draw < 550 THEN 1 ELSE 0
    ELSE IF draw < 50 THEN 1 ELSE 0

\* Math.random() < options.noise flips the outcome
finalSuccess(options, i, draw, noiseDraw) ==
    LET expected == expectedSuccess(options, i, draw)
        flip == /\ ~options.noise.nan
                /\ (options.noise.e > 0 \/ noiseDraw < options.noise.m)
    IN  IF flip THEN 1 - expected ELSE expected

shopifyLine(options, userId, i, draw, noiseDraw) ==
    [user_id |-> userId,
     session_id |-> sessionIdOf(i),
     success |-> finalSuccess(options, i, draw, noiseDraw)]

AwsHeader == <<"user_id", "session_id", "start_timestamp", "end_timestamp">>

ShopifyHeader == <<"user_id", "session_id", "success">>

generateAWSData(options, stream) ==
    [header |-> AwsHeader,
     rows |-> [i \in 1..iterations(options) |->
                  awsLine(userIdOf(randomOf(stream, i)), i)]]

generateShopifyData(options, stream) ==
    [header |-> ShopifyHeader,
     rows |-> [i \in 1..iterations(options) |->
                  shopifyLine(options, userIdOf(randomOf(stream, 3 * i - 2)), i,
                              randomOf(stream, 3 * i - 1), randomOf(stream, 3 * i))]]

\* two files generated one after the other, each with its own user ids
generateBothDataSeparately(options, stream) ==
    LET n == iterations(options)
    IN  [aws |-> generateAWSData(options, stream),
         shopify |->
             [header |-> ShopifyHeader,
              rows |-> [i \in 1..n |->
                  shopifyLine(options, userIdOf(randomOf(stream, n + 3 * i - 2)), i,
                              randomOf(stream, n + 3 * i - 1),
                              randomOf(stream, n + 3 * i))]]]

\* generateBothData: the user ids are drawn first, then each session gives a
\* line to both files
generateBothData(options, stream) ==
    LET n == iterations(options)
        userIds == [i \in 1..n |-> userIdOf(randomOf(stream, i))]
    IN  [aws |-> [header |-> AwsHeader,
                  rows |-> [i \in 1..n |-> awsLine(userIds[i], i)]],
         shopify |->
             [header |-> ShopifyHeader,
              rows |-> [i \in 1..n |->
                  shopifyLine(options, userIds[i], i,
                              randomOf(stream, n + 2 * i - 1),
                              randomOf(stream, n + 2 * i))]]]

\* main from the validation to the data: the generator of options.type runs
\* with the values Math.random() returns
generate(stream) ==
    /\ cli.pc = "validated"
    /\ cli' = [cli EXCEPT
          !.pc = "generated",
          !.data =
              IF cli.options.type = "aws"
              THEN [NoData EXCEPT !.aws = generateAWSData(cli.options, stream)]
              ELSE IF cli.options.type = "shopify"
              THEN [NoData EXCEPT
                       !.shopify = generateShopifyData(cli.options, stream)]
              ELSE generateBothData(cli.options, stream)]
    /\ UNCHANGED component

\* `${options.sessions}`
sessionsString(sessions) == IF sessions.nan THEN "NaN" ELSE ToString(sessions.n)

\* `${Math.round(options.noise * 100)}`
noiseString(noise) == IF noise.nan THEN "NaN" ELSE ToString(RoundDiv(noise.m, 10))

\* new Date().toISOString().slice(0, 10)
Today == "2024-01-01"

generateFilename(type, options) ==
    IF type = "aws"
    THEN "aws_sample_data_" \o sessionsString(options.sessions) \o "s_" \o Today
         \o ".csv"
    ELSE "shopify_sample_data_" \o sessionsString(options.sessions) \o "s_n"
         \o noiseString(options.noise) \o "_" \o Today \o ".csv"

\* options.output.replace(/\.csv$/, suffix)
replaceCsv(output, suffix) == IF output = "out.csv" THEN "out" \o suffix ELSE output

\* the file system after fs.writeFileSync(filename, data), or unchanged when
\* it throws
writeToFile(files, data, filename, written) ==
    IF written THEN (filename :> data) @@ files ELSE files

\* main from the data to its end: the writes, each of which can fail, and the
\* exit code
write(awsWritten, shopifyWritten) ==
    /\ cli.pc = "generated"
    /\ LET options == cli.options
           given == options.output # Absent
           awsName ==
               IF ~given THEN generateFilename("aws", options)
               ELSE IF options.type = "both" THEN replaceCsv(options.output, "_aws.csv")
               ELSE options.output
           shopifyName ==
               IF ~given THEN generateFilename("shopify", options)
               ELSE IF options.type = "both"
               THEN replaceCsv(options.output, "_shopify.csv")
               ELSE options.output
           afterAws ==
               IF options.type \in {"aws", "both"}
               THEN writeToFile(cli.files, cli.data.aws, awsName, awsWritten)
               ELSE cli.files
           afterShopify ==
               IF options.type \in {"shopify", "both"}
               THEN writeToFile(afterAws, cli.data.shopify, shopifyName,
                                shopifyWritten)
               ELSE afterAws
           success ==
               /\ (options.type \in {"aws", "both"} => awsWritten)
               /\ (options.type \in {"shopify", "both"} => shopifyWritten)
       IN  cli' = [cli EXCEPT
               !.pc = "exited",
               !.files = afterShopify,
               !.exitCode = IF success THEN 0 ELSE 1]
    /\ UNCHANGED component

-----------------------------------------------------------------------------
(* SpecCli: one run of the CLI for every command line over the flag values *)
(* below, with the values of Math.random() repeating with MaxPeriod.       *)

Argvs ==
    [type : {Absent, "aws", "shopify", "both", "csv"},
     sessions : {Absent, "2", "3", "0", "10001", "abc"},
     noise : {Absent, "1", "1.2", "abc"},
     pattern : {Absent, "linear", "cubic"},
     inflection : {Absent, "2"},
     output : {Absent, "out.csv"},
     help : BOOLEAN, unknown : BOOLEAN]

InitCli ==
    /\ fusedData = <<>>
    /\ shopifyData = <<>>
    /\ awsData = <<>>
    /\ stats = ZeroStats
    /\ shopifyUploadStatus = "idle"
    /\ awsUploadStatus = "idle"
    /\ isReportGenerated = FALSE
    /\ shopifyMessage = NoMessage
    /\ awsMessage = NoMessage
    /\ fusionMessage = NoMessage
    /\ shopifyReaders = {}
    /\ awsReaders = {}
    /\ csvText = NoText
    /\ smoothingLevel = 10
    /\ download = NoDownload
    /\ \E argv \in Argvs : cli = [NoCli EXCEPT !.pc = "start", !.argv = argv]

Generate == \E stream \in [1..MaxPeriod -> Draws] : generate(stream)

Write == \E awsWritten, shopifyWritten \in BOOLEAN : write(awsWritten, shopifyWritten)

NextCli ==
    \/ parseArgs
    \/ validate
    \/ Generate
    \/ Write

SpecCli == InitCli /\ [][NextCli]_vars

-----------------------------------------------------------------------------
(* SpecFuse: fuseData and generateFusionReport applied to every pair of    *)
(* record sets up to MaxSuccess and MaxDuration records.                   *)

SeqsUpTo(S, n) == UNION {[1..k -> S] : k \in 0..n}

FuseIds == {"s1", "s2", "s3"}

FuseRates == {4000, 9000}

FuseLengths == {200, 500}

SuccessRecords == [sessionId : FuseIds, successRate : FuseRates]

DurationRecords == [sessionId : FuseIds, sessionLength : FuseLengths]

LoadedMessage(data) ==
    IF Len(data) = 0 THEN NoMessage
    ELSE Msg("Successfully loaded", Len(data), 0, <<>>, <<>>)

InitFuse ==
    /\ shopifyData \in SeqsUpTo(SuccessRecords, MaxSuccess)
    /\ awsData \in SeqsUpTo(DurationRecords, MaxDuration)
    /\ fusedData = <<>>
    /\ stats = ZeroStats
    /\ shopifyUploadStatus = IF Len(shopifyData) = 0 THEN "idle" ELSE "success"
    /\ awsUploadStatus = IF Len(awsData) = 0 THEN "idle" ELSE "success"
    /\ isReportGenerated = FALSE
    /\ shopifyMessage = LoadedMessage(shopifyData)
    /\ awsMessage = LoadedMessage(awsData)
    /\ fusionMessage = NoMessage
    /\ shopifyReaders = {}
    /\ awsReaders = {}
    /\ csvText = NoText
    /\ smoothingLevel = 10
    /\ download = NoDownload
    /\ cli = NoCli

NextFuse == GenerateFusionReport

SpecFuse == InitFuse /\ [][NextFuse]_vars

-----------------------------------------------------------------------------
(* Spec: the component under its events.  The user picks files (through    *)
(* the upload buttons, disabled while their source is 'uploading'), the    *)
(* FileReaders fire onload or onerror in any order, and the user clicks    *)
(* Generate Analysis (disabled unless both sources are 'success') and Demo *)
(* Data.                                                                   *)

Csv(header, rows) == [header |-> header, rows |-> rows]

ShopifyTexts ==
    {Csv(<<"session_id", "success">>, << <<"s1", "0.9">>, <<"s2", "0.4">> >>),
     Csv(<<"session_id", "success_rate">>, << <<"s3", "45">> >>),
     Csv(<<"id", "value">>, << <<"s1", "0.9">> >>)}

AwsTexts ==
    {Csv(<<"session_id", "session_length">>, << <<"s1", "2.0">>, <<"s4", "5.0">> >>),
     Csv(<<"session_id", "start_timestamp", "end_timestamp">>,
         << <<"s3", "2024-01-01 10:00:00", "2024-01-01T10:00:02.500">> >>),
     Csv(<<"session_id", "value">>, << <<"s1", "2.0">> >>)}

ShopifyFiles ==
    {NoFile, [name |-> "notes.txt", text |-> Csv(<<>>, <<>>)]}
    \cup {[name |-> "shopify.csv", text |-> t] : t \in ShopifyTexts}

AwsFiles ==
    {NoFile, [name |-> "notes.txt", text |-> Csv(<<>>, <<>>)]}
    \cup {[name |-> "aws.csv", text |-> t] : t \in AwsTexts}

Init ==
    /\ fusedData = <<>>
    /\ shopifyData = <<>>
    /\ awsData = <<>>
    /\ stats = ZeroStats
    /\ shopifyUploadStatus = "idle"
    /\ awsUploadStatus = "idle"
    /\ isReportGenerated = FALSE
    /\ shopifyMessage = NoMessage
    /\ awsMessage = NoMessage
    /\ fusionMessage = NoMessage
    /\ shopifyReaders = {}
    /\ awsReaders = {}
    /\ csvText = NoText
    /\ smoothingLevel = 10
    /\ download = NoDownload
    /\ cli = NoCli

\* a reader may start while fewer than MaxReaders of its source are in
\* flight, and not for a text that one of them is already reading
MayRead(file, readers) ==
    isCsvName(file.name) =>
        Cardinality(readers) < MaxReaders /\ file.text \notin readers

ShopifyUpload ==
    /\ shopifyUploadStatus # "uploading"
    /\ \E file \in ShopifyFiles :
          MayRead(file, shopifyReaders) /\ handleShopifyUpload(file)

ShopifyOnload == \E text \in shopifyReaders : shopifyOnload(text)

ShopifyOnerror == \E text \in shopifyReaders : shopifyOnerror(text)

AWSUpload ==
    /\ awsUploadStatus # "uploading"
    /\ \E file \in AwsFiles : MayRead(file, awsReaders) /\ handleAWSUpload(file)

AWSOnload == \E text \in awsReaders : awsOnload(text)

AWSOnerror == \E text \in awsReaders : awsOnerror(text)

ClickGenerate ==
    /\ shopifyUploadStatus = "success"
    /\ awsUploadStatus = "success"
    /\ GenerateFusionReport

LoadSampleData == \E noise \in SampleNoise : loadSampleData(noise)

Next ==
    \/ ShopifyUpload
    \/ ShopifyOnload
    \/ ShopifyOnerror
    \/ AWSUpload
    \/ AWSOnload
    \/ AWSOnerror
    \/ ClickGenerate
    \/ LoadSampleData

Spec == Init /\ [][Next]_vars

\* SpecLive: the component under the same events, with every FileReader in
\* flight eventually firing onload or onerror.
SpecLive ==
    /\ Init
    /\ [][Next]_vars
    /\ WF_vars(ShopifyOnerror \/ ShopifyOnload)
    /\ WF_vars(AWSOnerror \/ AWSOnload)

-----------------------------------------------------------------------------
(* SpecParse: one upload in flight, of any CSV text of up to MaxCsvRows    *)
(* data lines over the cells below, and its reader firing onload.          *)

IdCells == {"s1", "s2", ""}

SuccessCells ==
    {"0", "0.4", "0.9", "1", "1.2", "1.234", "45", "150", "-0.5", "abc"}

LengthCells == {"0", "0.004", "1.234", "2.0", "2.5", "-2", "abc"}

\* start and end cells: both Unix seconds, both around 1e10, both date-time
\* strings, or one that is neither
TimestampPairs ==
    ({"0", "0.004", "2.5"} \X {"0", "0.004", "2.5"})
    \cup ({"9999999998", "10000000000", "10000000002.5", "10000002500"}
          \X {"9999999998", "10000000000", "10000000002.5", "10000002500"})
    \cup ({"2024-01-01 10:00:00", "2024-01-01T10:00:02.500", "2024-01-01T10:00:00.004"}
          \X {"2024-01-01 10:00:00", "2024-01-01T10:00:02.500", "2024-01-01T10:00:00.004"})
    \cup {<<"abc", "2.5">>, <<"2024-01-01 10:00:00", "abc">>}

ShopifyRows ==
    {<<id, v>> : id \in IdCells, v \in SuccessCells} \cup {<<"s1">>}

\* headers that lack a required column or have a third column (one of them a
\* column that only contains the words of a session id, ahead of session_id),
\* over rows of one, two and three cells
OtherShopifyHeaders ==
    {<<"id", "success">>, <<"session_id", "value">>,
     <<"session_id", "success", "timestamp">>,
     <<"order_id", "session_id", "success">>,
     <<"Session ID", "session_id", "success">>}

OtherShopifyRows ==
    {<<"s1">>, <<"s1", "0.9">>, <<"s2", "0.4", "2024-01-01 10:00:00">>,
     <<"7", "s1", "0.9">>}

ParseShopifyTexts ==
    {Csv(h, rows) :
        h \in {<<"session_id", "success">>, <<"session_id", "success_rate">>,
               <<"id", "value">>},
        rows \in SeqsUpTo(ShopifyRows, MaxCsvRows)}
    \cup
    {Csv(h, rows) :
        h \in OtherShopifyHeaders, rows \in SeqsUpTo(OtherShopifyRows, MaxCsvRows)}

LengthRows ==
    {<<id, v>> : id \in IdCells, v \in LengthCells} \cup {<<"s1">>}

TimestampRows ==
    {<<"s1", pair[1], pair[2]>> : pair \in TimestampPairs}
    \cup {<<"s1", "2.5">>, <<"", "0", "2.5">>}

\* headers that lack a required column or have a third column (one of them a
\* column that only contains the words of a session id, ahead of session_id),
\* over rows of one, two and three cells
OtherAwsHeaders ==
    {<<"value", "session_length">>, <<"value", "start_timestamp", "end_timestamp">>,
     <<"session_id", "start_timestamp", "value">>,
     <<"session_id", "value", "end_timestamp">>,
     <<"session_id", "session_length", "user_id">>,
     <<"user_id", "session_id", "session_length">>,
     <<"Session ID", "session_id", "session_length">>}

OtherAwsRows ==
    {<<"s1">>, <<"s1", "2.0">>, <<"s2", "2.5", "5.0">>, <<"7", "s1", "2.0">>}

ParseAwsTexts ==
    {Csv(h, rows) :
        h \in {<<"session_id", "session_length">>, <<"session_id", "value">>},
        rows \in SeqsUpTo(LengthRows, MaxCsvRows)}
    \cup
    {Csv(<<"session_id", "start_timestamp", "end_timestamp">>, rows) :
        rows \in SeqsUpTo(TimestampRows, MaxCsvRows)}
    \cup
    {Csv(h, rows) :
        h \in OtherAwsHeaders, rows \in SeqsUpTo(OtherAwsRows, MaxCsvRows)}

InitParse ==
    /\ fusedData = <<>>
    /\ shopifyData = <<>>
    /\ awsData = <<>>
    /\ stats = ZeroStats
    /\ isReportGenerated = FALSE
    /\ fusionMessage = NoMessage
    /\ shopifyMessage = NoMessage
    /\ awsMessage = NoMessage
    /\ csvText = NoText
    /\ smoothingLevel = 10
    /\ download = NoDownload
    /\ cli = NoCli
    /\ \/ /\ shopifyReaders \in {{t} : t \in ParseShopifyTexts}
          /\ shopifyUploadStatus = "uploading"
          /\ awsReaders = {}
          /\ awsUploadStatus = "idle"
       \/ /\ awsReaders \in {{t} : t \in ParseAwsTexts}
          /\ awsUploadStatus = "uploading"
          /\ shopifyReaders = {}
          /\ shopifyUploadStatus = "idle"

NextParse ==
    \/ ShopifyOnload
    \/ AWSOnload

SpecParse == InitParse /\ [][NextParse]_vars

-----------------------------------------------------------------------------
(* SpecExport: the Export button clicked on a report over every pair of    *)
(* record sets, up to MaxSuccess and MaxDuration records, that share a     *)
(* session id.  The rates and lengths are ones the parsers store: 0.4 from *)
(* the cell 0.004, 40 from 0.4, 45.5 from 45.5; 1.23 from 1.234, 2 from 2. *)

ExportIds == {"s1", "s2"}

ExportRates == {40, 4000, 4550}

ExportLengths == {123, 200}

ExportSuccessRecords ==
    [sessionId : ExportIds, successRate : ExportRates]

ExportDurationRecords ==
    [sessionId : ExportIds, sessionLength : ExportLengths]

InitExport ==
    /\ shopifyData \in SeqsUpTo(ExportSuccessRecords, MaxSuccess)
    /\ awsData \in SeqsUpTo(ExportDurationRecords, MaxDuration)
    /\ fusedData = fuseData(shopifyData, awsData)
    /\ fusedData # <<>>
    /\ stats = statsOf(fusedData, Max(Len(shopifyData), Len(awsData)))
    /\ shopifyUploadStatus = "success"
    /\ awsUploadStatus = "success"
    /\ isReportGenerated = TRUE
    /\ shopifyMessage = LoadedMessage(shopifyData)
    /\ awsMessage = LoadedMessage(awsData)
    /\ fusionMessage = Msg("Fusion report generated", Len(fusedData),
                           Max(Len(shopifyData), Len(awsData)), <<>>, <<>>)
    /\ shopifyReaders = {}
    /\ awsReaders = {}
    /\ csvText = NoText
    /\ smoothingLevel = 10
    /\ download = NoDownload
    /\ cli = NoCli

NextExport == exportData

SpecExport == InitExport /\ [][NextExport]_vars

-----------------------------------------------------------------------------
(* SpecSmooth: the slider moved over a report of every number of fused     *)
(* records up to MaxPoints, each session in both files once.               *)

SmoothSuccess(n) ==
    [i \in 1..n |-> [sessionId |-> "s" \o ToString(i),
                     successRate |-> 9000 - 150 * i]]

SmoothDuration(n) ==
    [i \in 1..n |-> [sessionId |-> "s" \o ToString(i),
                     sessionLength |-> 100 + 10 * ((i * 7) % 13)]]

InitSmooth ==
    /\ \E n \in 0..MaxPoints :
          /\ shopifyData = SmoothSuccess(n)
          /\ awsData = SmoothDuration(n)
    /\ fusedData = fuseData(shopifyData, awsData)
    /\ stats = IF Len(fusedData) = 0 THEN ZeroStats
               ELSE statsOf(fusedData, Max(Len(shopifyData), Len(awsData)))
    /\ shopifyUploadStatus = IF Len(shopifyData) = 0 THEN "idle" ELSE "success"
    /\ awsUploadStatus = IF Len(awsData) = 0 THEN "idle" ELSE "success"
    /\ isReportGenerated = (Len(fusedData) > 0)
    /\ shopifyMessage = LoadedMessage(shopifyData)
    /\ awsMessage = LoadedMessage(awsData)
    /\ fusionMessage =
          IF Len(fusedData) = 0 THEN NoMessage
          ELSE Msg("Fusion report generated", Len(fusedData),
                   Max(Len(shopifyData), Len(awsData)), <<>>, <<>>)
    /\ shopifyReaders = {}
    /\ awsReaders = {}
    /\ csvText = NoText
    /\ smoothingLevel = 10
    /\ download = NoDownload
    /\ cli = NoCli

NextSmooth == \E value \in SmoothingLevels : setSmoothingLevel(value)

SpecSmooth == InitSmooth /\ [][NextSmooth]_vars

-----------------------------------------------------------------------------
(* SpecReport: the two handlers that publish a report, Generate Analysis   *)
(* (enabled when both sources are 'success') and Demo Data, from every     *)
(* pair of loaded record sets of SpecFuse.                                 *)

NextReport ==
    \/ ClickGenerate
    \/ LoadSampleData

SpecReport == InitFuse /\ [][NextReport]_vars

-----------------------------------------------------------------------------
(* SpecStats: Generate Analysis over up to MaxStatRecords success records  *)
(* of distinct ids and every duration set of as many records, with         *)
(* durations that one decimal does not hold.                               *)

StatId(i) == "s" \o ToString(i)

\* sessionLength values in hundredths: 1.23, 1.26 and 2
StatLengths == {123, 126, 200}

StatSuccess(n) == [i \in 1..n |-> [sessionId |-> StatId(i), successRate |-> 4000]]

StatDurations(n) ==
    [1..n -> [sessionId : {StatId(i) : i \in 1..n}, sessionLength : StatLengths]]

InitStats ==
    /\ \E n \in 1..MaxStatRecords :
          /\ shopifyData = StatSuccess(n)
          /\ awsData \in StatDurations(n)
    /\ fusedData = <<>>
    /\ stats = ZeroStats
    /\ shopifyUploadStatus = "success"
    /\ awsUploadStatus = "success"
    /\ isReportGenerated = FALSE
    /\ shopifyMessage = LoadedMessage(shopifyData)
    /\ awsMessage = LoadedMessage(awsData)
    /\ fusionMessage = NoMessage
    /\ shopifyReaders = {}
    /\ awsReaders = {}
    /\ csvText = NoText
    /\ smoothingLevel = 10
    /\ download = NoDownload
    /\ cli = NoCli

NextStats == ClickGenerate

SpecStats == InitStats /\ [][NextStats]_vars

-----------------------------------------------------------------------------
(* Properties of the fusion.                                               *)

IdsOf(records) == {records[i].sessionId : i \in DOMAIN records}

\* the indices of the success records whose id some duration record carries
Matching(shopify, aws) ==
    {i \in DOMAIN shopify : shopify[i].sessionId \in IdsOf(aws)}

\* what fuseData returns in the current state
FusedNow == fuseData(shopifyData, awsData)

\* the state after a generateFusionReport that fused at least one record
Generated == fusionMessage.kind = "Fusion report generated"

\* C1: fuseData is an inner join on session id. The output has one record per
\* success record whose id some duration record carries (the k-th such record
\* gives the point numbered k, with its id and successRate and the
\* sessionLength of a duration record of that id), it has no other record, no
\* id of only one set appears in it, and it is empty when a set is empty or
\* the ids do not intersect.
C1_InnerJoin ==
    LET out == FusedNow
        match == Matching(shopifyData, awsData)
    IN  /\ Len(out) = Cardinality(match)
        /\ \A i \in match :
              \E p \in DOMAIN out :
                 /\ out[p].sessionNumber = Cardinality({j \in match : j <= i})
                 /\ out[p].sessionId = shopifyData[i].sessionId
                 /\ out[p].successRate = shopifyData[i].successRate
                 /\ \E d \in DOMAIN awsData :
                       /\ awsData[d].sessionId = out[p].sessionId
                       /\ awsData[d].sessionLength = out[p].sessionLength
        /\ \A p \in DOMAIN out :
              out[p].sessionId \in IdsOf(shopifyData) \cap IdsOf(awsData)
        /\ (IdsOf(shopifyData) \cap IdsOf(awsData) = {} => out = <<>>)
        /\ (Generated => fusedData = out)

\* a report over a join that dropped an id of the success set and an id of the
\* duration set
C1_Witness ==
    /\ Generated
    /\ fusedData # <<>>
    /\ IdsOf(shopifyData) \ IdsOf(awsData) # {}
    /\ IdsOf(awsData) \ IdsOf(shopifyData) # {}

\* C2 as stated: after a report, matchedSessions <=
\* min(|SuccessRecords|, |DurationRecords|), with equality only when one set's
\* ids are a subset of the other's, whether or not a session id occurs more
\* than once.
C2_Original ==
    LET lo == Min(Len(shopifyData), Len(awsData))
    IN  Generated =>
           /\ stats.matchedSessions <= lo
           /\ (stats.matchedSessions = lo =>
                  \/ IdsOf(shopifyData) \subseteq IdsOf(awsData)
                  \/ IdsOf(awsData) \subseteq IdsOf(shopifyData))

DistinctIds(records) == Cardinality(IdsOf(records)) = Len(records)

\* C2 as amended: matchedSessions <= |SuccessRecords| always; when no session
\* id occurs twice in the success set (the duration set may repeat ids),
\* matchedSessions <= min(|SuccessRecords|, |DurationRecords|), with equality
\* only when one set's ids are a subset of the other's.
C2_Amended ==
    LET lo == Min(Len(shopifyData), Len(awsData))
    IN  Generated =>
           /\ stats.matchedSessions <= Len(shopifyData)
           /\ (DistinctIds(shopifyData) =>
                  /\ stats.matchedSessions <= lo
                  /\ (stats.matchedSessions = lo =>
                         \/ IdsOf(shopifyData) \subseteq IdsOf(awsData)
                         \/ IdsOf(awsData) \subseteq IdsOf(shopifyData)))

\* a report with distinct success ids, a repeated duration id, and as many
\* matches as the smaller set has records
C2_Witness ==
    /\ Generated
    /\ DistinctIds(shopifyData)
    /\ ~DistinctIds(awsData)
    /\ stats.matchedSessions = Min(Len(shopifyData), Len(awsData))

\* C3: the sequence fuseData returns is ascending in sessionLength, and points
\* of equal sessionLength keep the order of their success records (the order
\* of their sessionNumber, which counts the matches in success-input order).
C3_SortedStable ==
    LET out == FusedNow
    IN  /\ \A p, q \in DOMAIN out :
              p < q =>
                 /\ out[p].sessionLength <= out[q].sessionLength
                 /\ (out[p].sessionLength = out[q].sessionLength =>
                        out[p].sessionNumber < out[q].sessionNumber)
        /\ (Generated => fusedData = out)

\* a report in which the sort moved a point forward and left a tie in input
\* order
C3_Witness ==
    /\ Generated
    /\ \E p, q \in DOMAIN fusedData :
          p < q /\ fusedData[p].sessionNumber > fusedData[q].sessionNumber
    /\ \E p, q \in DOMAIN fusedData :
          /\ p < q
          /\ fusedData[p].sessionLength = fusedData[q].sessionLength

-----------------------------------------------------------------------------
(* Properties of the parsers.                                              *)

\* the columns the parsers read, as 0-based indices (-1: no such column)
ShopifyIdColumn(csv) == findIndex(headersOf(csv), {h \in KnownHeaders : isShopifySessionId(h)})

SuccessColumn(csv) == findIndex(headersOf(csv), {h \in KnownHeaders : isSuccessRate(h)})

AwsIdColumn(csv) == findIndex(headersOf(csv), {h \in KnownHeaders : isAwsSessionId(h)})

StartColumn(csv) == findIndex(headersOf(csv), {h \in KnownHeaders : isStartTimestamp(h)})

EndColumn(csv) == findIndex(headersOf(csv), {h \in KnownHeaders : isEndTimestamp(h)})

LengthColumn(csv) == findIndex(headersOf(csv), {h \in KnownHeaders : isSessionLength(h)})

\* the state after the onload of a success CSV that parsed
ShopifyLoaded == csvText.source = "shopify" /\ shopifyUploadStatus = "success"

\* the state after the onload of a duration CSV that parsed
AwsLoaded == csvText.source = "aws" /\ awsUploadStatus = "success"

\* the k-th smallest element of a set of indices
Nth(indices, k) == CHOOSE i \in indices : Cardinality({j \in indices : j <= i}) = k

\* the data lines of a success CSV that yield a record: two cells or more, a
\* session id, a success cell that parses to a number
ShopifyRecordRows(csv) ==
    {i \in DOMAIN csv.rows :
        /\ Len(csv.rows[i]) >= 2
        /\ Truthy(Cell(csv.rows[i], ShopifyIdColumn(csv)))
        /\ ~isNaN(parseFloat(Cell(csv.rows[i], SuccessColumn(csv))))}

\* the number in the success cell of data line i, in thousandths
SuccessValue(csv, i) ==
    parseFloat(Cell(csv.rows[i], SuccessColumn(csv))).m

\* 1000 times the normalised value: v * 100 for v <= 1, else v
Normalized(v) == IF v <= 1000 THEN v * 100 ELSE v

C5_Original ==
    \A k \in DOMAIN shopifyData :
        0 <= shopifyData[k].successRate /\ shopifyData[k].successRate <= 10000

\* C6 as stated: every DurationRecord has a finite durationSeconds > 0, as
\* stored in the record.
C6_Original == \A k \in DOMAIN awsData : awsData[k].sessionLength > 0

\* a duration CSV whose length comes from a start and an end column
OnTimestampPath(csv) ==
    /\ LengthColumn(csv) = -1
    /\ StartColumn(csv) >= 0
    /\ EndColumn(csv) >= 0

StartCell(csv, i) == Cell(csv.rows[i], StartColumn(csv))

EndCell(csv, i) == Cell(csv.rows[i], EndColumn(csv))

\* both cells are Unix numbers, or both are date-time strings that parse
BothNumbers(start, end) == MatchesDigits(start) /\ MatchesDigits(end)

BothDates(start, end) ==
    /\ normalizeTime(start) \in DOMAIN DateTime
    /\ normalizeTime(end) \in DOMAIN DateTime

\* end - start: in thousandths of the unit the cells are written in for
\* numbers, in milliseconds for date-time strings
Difference(start, end) ==
    IF BothNumbers(start, end) THEN parseFloat(end).m - parseFloat(start).m
    ELSE DateTime[normalizeTime(end)] - DateTime[normalizeTime(start)]

\* how many of the units of Difference make a thousandth of a second: numbers
\* are milliseconds when the start is at or above 1e10, else seconds
PerSecond(start, end) ==
    IF BothNumbers(start, end) /\ parseFloat(start).e = 1 /\ parseFloat(start).m >= 0
    THEN 1000 ELSE 1

\* the data lines of a timestamp CSV that yield a record: a session id, a
\* start and an end that parse, end after start
TimestampRecordRows(csv) ==
    {i \in DOMAIN csv.rows :
        /\ Len(csv.rows[i]) >= 2
        /\ Truthy(Cell(csv.rows[i], AwsIdColumn(csv)))
        /\ \/ BothNumbers(StartCell(csv, i), EndCell(csv, i))
           \/ BothDates(StartCell(csv, i), EndCell(csv, i))
        /\ Difference(StartCell(csv, i), EndCell(csv, i)) > 0}

\* C7 as stated: a record derived from a start/end pair holds exactly
\* (end - start) in seconds, and a row with end <= start gives no record.
C7_Original ==
    AwsLoaded /\ OnTimestampPath(csvText.text) =>
        LET csv == csvText.text
            rows == TimestampRecordRows(csv)
        IN  /\ Len(awsData) = Cardinality(rows)
            /\ \A k \in DOMAIN awsData :
                  LET i == Nth(rows, k)
                  IN  10 * PerSecond(StartCell(csv, i), EndCell(csv, i))
                         * awsData[k].sessionLength
                      = Difference(StartCell(csv, i), EndCell(csv, i))

\* C7 as amended: a record derived from a start/end pair holds (end - start)
\* in seconds rounded to two decimals (numbers count as milliseconds when the
\* start is at or above 1e10, else as seconds), which is 0 for a difference
\* under 0.005 s, and a row with end <= start gives no record.
C7_Amended ==
    AwsLoaded /\ OnTimestampPath(csvText.text) =>
        LET csv == csvText.text
            rows == TimestampRecordRows(csv)
        IN  /\ Len(awsData) = Cardinality(rows)
            /\ \A k \in DOMAIN awsData :
                  LET i == Nth(rows, k)
                      per == PerSecond(StartCell(csv, i), EndCell(csv, i))
                      off == 10 * per * awsData[k].sessionLength
                             - Difference(StartCell(csv, i), EndCell(csv, i))
                  IN  -5 * per <= off /\ off <= 5 * per

\* a parsed timestamp CSV of two rows: one gives 2.5 s, the other has
\* end <= start and gives no record
C7_Witness ==
    /\ AwsLoaded
    /\ OnTimestampPath(csvText.text)
    /\ Len(csvText.text.rows) = 2
    /\ awsData = <<[sessionId |-> "s1", sessionLength |-> 250]>>
    /\ \E i \in DOMAIN csvText.text.rows :
          /\ BothNumbers(StartCell(csvText.text, i), EndCell(csvText.text, i))
          /\ Difference(StartCell(csvText.text, i), EndCell(csvText.text, i)) <= 0

-----------------------------------------------------------------------------
(* Properties of the component.                                            *)

\* the fused records are the ones a Demo Data click loads
IsSample(points) == \E noise \in SampleNoise : points = SampleLoads[noise].fusedData

\* C8 as stated: the fused records and statistics on display are never ones
\* computed from a success/duration pairing that a successful upload has
\* since replaced: what a report left on display is the fusion of the record
\* sets now loaded.
C8_Original ==
    fusedData # <<>> /\ ~IsSample(fusedData) =>
        /\ fusedData = fuseData(shopifyData, awsData)
        /\ stats = statsOf(fusedData, Max(Len(shopifyData), Len(awsData)))

\* a step that rejects an upload of the source: its status is 'error' after
\* the step, and the step changed its status, its message or its readers
ShopifyRejected ==
    /\ shopifyUploadStatus' = "error"
    /\ \/ shopifyUploadStatus # "error"
       \/ shopifyMessage' # shopifyMessage
       \/ shopifyReaders' # shopifyReaders

AwsRejected ==
    /\ awsUploadStatus' = "error"
    /\ \/ awsUploadStatus # "error"
       \/ awsMessage' # awsMessage
       \/ awsReaders' # awsReaders

ErrorKinds ==
    {"Please upload a CSV file", "Error reading file",
     "Shopify CSV must have at least a header row and one data row",
     "Missing required columns", "No valid Shopify data rows found in CSV",
     "AWS CSV must have at least a header row and one data row",
     "Cannot find required columns", "No valid AWS data rows found in CSV"}

\* C9: a rejected upload of one source sets that source's status to 'error'
\* and its message, and neither the step that rejects it nor the step that
\* started it changes the other source's records, status or message, or the
\* records the rejected source had loaded; the rejecting step leaves the
\* fused records, the statistics and the fusion message alone too.
C9_RejectionFrame ==
    [][/\ ShopifyRejected =>
             /\ shopifyMessage'.kind \in ErrorKinds
             /\ UNCHANGED <<awsData, awsUploadStatus, awsMessage, shopifyData,
                            fusedData, stats, isReportGenerated, fusionMessage>>
       /\ AwsRejected =>
             /\ awsMessage'.kind \in ErrorKinds
             /\ UNCHANGED <<shopifyData, shopifyUploadStatus, shopifyMessage,
                            awsData, fusedData, stats, isReportGenerated,
                            fusionMessage>>
       /\ shopifyUploadStatus' = "uploading" /\ shopifyUploadStatus # "uploading" =>
             UNCHANGED <<awsData, awsUploadStatus, awsMessage, shopifyData>>
       /\ awsUploadStatus' = "uploading" /\ awsUploadStatus # "uploading" =>
             UNCHANGED <<shopifyData, shopifyUploadStatus, shopifyMessage, awsData>>
      ]_vars

\* a success CSV was rejected for its columns after another had been loaded,
\* with the duration source loaded
C9_Witness ==
    /\ shopifyUploadStatus = "error"
    /\ shopifyMessage.kind = "Missing required columns"
    /\ shopifyData # <<>>
    /\ awsUploadStatus = "success"
    /\ awsData # <<>>

\* both sources are loaded and share no session id
NoOverlap ==
    /\ shopifyUploadStatus = "success"
    /\ awsUploadStatus = "success"
    /\ shopifyData # <<>>
    /\ awsData # <<>>
    /\ IdsOf(shopifyData) \cap IdsOf(awsData) = {}

\* C10: a generateFusionReport over two loaded record sets that share no
\* session id sets the 'No matching sessions' fusion message, which no parse
\* failure produces, and leaves both statuses 'success' and fusedData, stats
\* and isReportGenerated unchanged; the upload messages never carry it.
C10_NoMatchOutcome ==
    [][/\ NoOverlap /\ fusionMessage' # fusionMessage /\ fusionMessage' # NoMessage =>
             /\ fusionMessage'.kind = "No matching sessions found"
             /\ fusionMessage'.kind \notin ErrorKinds
             /\ fusionMessage'.n = Len(shopifyData)
             /\ fusionMessage'.m = Len(awsData)
             /\ UNCHANGED <<shopifyUploadStatus, awsUploadStatus, fusedData,
                            stats, isReportGenerated, shopifyData, awsData>>
       /\ shopifyMessage'.kind # "No matching sessions found"
       /\ awsMessage'.kind # "No matching sessions found"
      ]_vars

\* the state after such a report
C10_Witness ==
    /\ NoOverlap
    /\ fusionMessage.kind = "No matching sessions found"

-----------------------------------------------------------------------------
(* Properties of the parsers' errors.                                      *)

\* the state after the onload of a success CSV
ShopifyRead == csvText.source = "shopify"

\* the state after the onload of a duration CSV
AwsRead == csvText.source = "aws"

\* the onload of a success CSV that is a header line only has set this error
\* and nothing else: no record, no fused record, no fusion message
HeaderOnlyFailsWith(kind) ==
    ShopifyRead /\ csvText.text.rows = <<>> =>
        /\ shopifyUploadStatus = "error"
        /\ shopifyMessage.kind = kind
        /\ shopifyData = <<>>
        /\ fusedData = <<>>
        /\ stats = ZeroStats
        /\ ~isReportGenerated
        /\ fusionMessage = NoMessage

\* C11 as stated: parsing a success CSV that is a header line only fails with
\* the EmptyResult error (no valid data rows), in the parse stage, before any
\* fusion.
C11_Original == HeaderOnlyFailsWith("No valid Shopify data rows found in CSV")

\* C11 as amended: parsing a success CSV that is a header line only fails
\* with the MalformedInput error (too few lines: 'must have at least a header
\* row and one data row'), whatever its header, in the parse stage, before
\* any fusion; EmptyResult needs at least one data line.
C11_Amended ==
    /\ HeaderOnlyFailsWith("Shopify CSV must have at least a header row and one data row")
    /\ (shopifyMessage.kind = "No valid Shopify data rows found in CSV" =>
           ShopifyRead /\ Len(csvText.text.rows) >= 1)

\* a header-only success CSV with both columns in its header was read
C11_Witness ==
    /\ ShopifyRead
    /\ csvText.text.rows = <<>>
    /\ ShopifyIdColumn(csvText.text) >= 0
    /\ SuccessColumn(csvText.text) >= 0
    /\ shopifyUploadStatus = "error"

\* the data lines of a duration CSV with a length column that yield a
\* record: two cells or more, a session id, a length that parses and is > 0
LengthRecordRows(csv) ==
    {i \in DOMAIN csv.rows :
        /\ Len(csv.rows[i]) >= 2
        /\ Truthy(Cell(csv.rows[i], AwsIdColumn(csv)))
        /\ ~isNaN(parseFloat(Cell(csv.rows[i], LengthColumn(csv))))
        /\ isPositive(lengthOfRow(csv.rows[i], LengthColumn(csv), -1, -1))}

\* the valid data lines of a duration CSV: the length column wins over the
\* timestamp columns
AwsRecordRows(csv) ==
    IF LengthColumn(csv) >= 0 THEN LengthRecordRows(csv) ELSE TimestampRecordRows(csv)

\* both required columns of a success CSV resolve
ShopifyResolves(csv) == ShopifyIdColumn(csv) >= 0 /\ SuccessColumn(csv) >= 0

\* the session id and a length, or a start and an end, of a duration CSV resolve
AwsResolves(csv) ==
    /\ AwsIdColumn(csv) >= 0
    /\ LengthColumn(csv) >= 0 \/ (StartColumn(csv) >= 0 /\ EndColumn(csv) >= 0)

\* the record of data line i of a success CSV
ShopifyRecordOf(csv, i) ==
    [sessionId |-> Cell(csv.rows[i], ShopifyIdColumn(csv)),
     successRate |->
         normalizeSuccessRate(parseFloat(Cell(csv.rows[i], SuccessColumn(csv))))]

\* the record of data line i of a duration CSV
AwsRecordOf(csv, i) ==
    [sessionId |-> Cell(csv.rows[i], AwsIdColumn(csv)),
     sessionLength |->
         storedLength(lengthOfRow(csv.rows[i], LengthColumn(csv),
                                  IF LengthColumn(csv) >= 0 THEN -1 ELSE StartColumn(csv),
                                  IF LengthColumn(csv) >= 0 THEN -1 ELSE EndColumn(csv)))]

\* the parse of the success CSV gave the records of its valid lines, in input
\* order, or the EmptyResult error when it has none
ShopifyRowsKept ==
    LET csv == csvText.text
        valid == ShopifyRecordRows(csv)
    IN  IF valid = {}
        THEN /\ shopifyUploadStatus = "error"
             /\ shopifyMessage.kind = "No valid Shopify data rows found in CSV"
             /\ shopifyData = <<>>
        ELSE /\ shopifyUploadStatus = "success"
             /\ shopifyData = [k \in 1..Cardinality(valid) |->
                                  ShopifyRecordOf(csv, Nth(valid, k))]

AwsRowsKept ==
    LET csv == csvText.text
        valid == AwsRecordRows(csv)
    IN  IF valid = {}
        THEN /\ awsUploadStatus = "error"
             /\ awsMessage.kind = "No valid AWS data rows found in CSV"
             /\ awsData = <<>>
        ELSE /\ awsUploadStatus = "success"
             /\ awsData = [k \in 1..Cardinality(valid) |->
                              AwsRecordOf(csv, Nth(valid, k))]

AbsentShopifyFields(csv) ==
    (IF ShopifyIdColumn(csv) = -1 THEN <<"session_id">> ELSE <<>>) \o
    (IF SuccessColumn(csv) = -1 THEN <<"success or success_rate">> ELSE <<>>)

\* the success parse failed with MissingColumns
ShopifyMissingColumns == shopifyMessage.kind = "Missing required columns"

\* a MissingColumns error names exactly the absent fields and carries the
\* full list of headers, and no record was produced
ShopifyMissingPayload ==
    ShopifyMissingColumns =>
        /\ shopifyMessage.missing = AbsentShopifyFields(csvText.text)
        /\ shopifyMessage.headers = headersOf(csvText.text)
        /\ shopifyUploadStatus = "error"
        /\ shopifyData = <<>>

AwsMissingColumns == awsMessage.kind = "Cannot find required columns"

\* the requirements of a duration CSV that its header does not meet, as the
\* error names them
AbsentAwsFields(csv) ==
    (IF AwsIdColumn(csv) = -1 THEN <<"session_id (or similar)">> ELSE <<>>) \o
    (IF LengthColumn(csv) = -1 /\ (StartColumn(csv) = -1 \/ EndColumn(csv) = -1)
     THEN <<"session_length OR (start_timestamp AND end_timestamp)">> ELSE <<>>)

\* a MissingColumns error carries the available headers and what is absent,
\* and no record was produced
AwsMissingPayload ==
    AwsMissingColumns =>
        /\ awsMessage.headers = headersOf(csvText.text)
        /\ awsMessage.missing = AbsentAwsFields(csvText.text)
        /\ awsUploadStatus = "error"
        /\ awsData = <<>>

\* C14 as stated: parseAWSCSV accepts a header if and only if a session-id
\* column resolves and either a duration column resolves or both a start and
\* an end timestamp column resolve; otherwise it fails with MissingColumns,
\* which carries the available headers, and produces no record.
C14_Original ==
    AwsRead =>
        /\ AwsMissingColumns <=> ~AwsResolves(csvText.text)
        /\ AwsMissingPayload

\* C14 as amended: for a CSV with at least one data line, parseAWSCSV accepts
\* the header if and only if a session-id column resolves and either a
\* duration column resolves or both a start and an end timestamp column
\* resolve; otherwise it fails with MissingColumns, which carries the
\* available headers, and produces no record. A header-only CSV fails with
\* MalformedInput whatever its header.
C14_Amended ==
    AwsRead =>
        /\ AwsMissingColumns <=>
              (csvText.text.rows # <<>> /\ ~AwsResolves(csvText.text))
        /\ (csvText.text.rows = <<>> =>
               awsMessage.kind
                  = "AWS CSV must have at least a header row and one data row")
        /\ AwsMissingPayload

\* a duration CSV with data lines, a session id and a start column but no end
\* column was rejected
C14_Witness ==
    /\ AwsRead
    /\ AwsMissingColumns
    /\ csvText.text.rows # <<>>
    /\ AwsIdColumn(csvText.text) >= 0
    /\ StartColumn(csvText.text) >= 0
    /\ EndColumn(csvText.text) = -1

\* the number of cells of data line i and of the header line
Cells(csv, i) == Len(csv.rows[i])

Width(csv) == Len(csv.header)

\* the columns a duration record is read from, as 0-based indices
AwsRequiredColumns(csv) ==
    IF LengthColumn(csv) >= 0 THEN {AwsIdColumn(csv), LengthColumn(csv)}
    ELSE {AwsIdColumn(csv), StartColumn(csv), EndColumn(csv)}

\* C20 as stated: every data row that the parsers turn into a record has
\* exactly as many cells as the header row; a row with fewer cells than the
\* header is skipped.
C20_Original ==
    /\ ShopifyRead /\ shopifyUploadStatus = "success" =>
          /\ ShopifyRowsKept
          /\ \A i \in ShopifyRecordRows(csvText.text) :
                Cells(csvText.text, i) = Width(csvText.text)
    /\ AwsRead /\ awsUploadStatus = "success" =>
          /\ AwsRowsKept
          /\ \A i \in AwsRecordRows(csvText.text) :
                Cells(csvText.text, i) = Width(csvText.text)

\* C20 as amended: every data row that the parsers turn into a record has at
\* least 2 cells and a cell in each required column (session id and success
\* rate; session id and duration, or session id, start and end); a row with
\* fewer than 2 cells or without a cell in a required column is skipped,
\* never padded. A row with fewer or more cells than the header is accepted
\* when the required cells are there.
C20_Amended ==
    /\ ShopifyRead /\ shopifyUploadStatus = "success" =>
          /\ ShopifyRowsKept
          /\ \A i \in ShopifyRecordRows(csvText.text) :
                /\ Cells(csvText.text, i) >= 2
                /\ Cells(csvText.text, i) > ShopifyIdColumn(csvText.text)
                /\ Cells(csvText.text, i) > SuccessColumn(csvText.text)
    /\ AwsRead /\ awsUploadStatus = "success" =>
          /\ AwsRowsKept
          /\ \A i \in AwsRecordRows(csvText.text) :
                /\ Cells(csvText.text, i) >= 2
                /\ \A column \in AwsRequiredColumns(csvText.text) :
                      Cells(csvText.text, i) > column

\* a success CSV with a header of three columns of which a row of two cells
\* and a row of three cells each gave a record
C20_Witness ==
    /\ ShopifyRead
    /\ shopifyUploadStatus = "success"
    /\ Width(csvText.text) = 3
    /\ \E i \in ShopifyRecordRows(csvText.text) : Cells(csvText.text, i) = 2
    /\ \E i \in DOMAIN csvText.text.rows :
          Cells(csvText.text, i) = 3 /\ i \in ShopifyRecordRows(csvText.text)

-----------------------------------------------------------------------------
(* Further properties of the fusion and of the statistics.                 *)

UnionIds == Cardinality(IdsOf(shopifyData) \cup IdsOf(awsData))

\* C17 as stated: after a successful generateFusionReport over N fused
\* records, matchedSessions = N, totalSessions = max(|SuccessRecords|,
\* |DurationRecords|), and totalSessions is an upper bound on the number of
\* distinct session ids in the union of the two sets.
C17_Original ==
    Generated =>
        /\ stats.matchedSessions = Len(fusedData)
        /\ stats.totalSessions = Max(Len(shopifyData), Len(awsData))
        /\ UnionIds <= stats.totalSessions

\* C17 as amended: after a successful generateFusionReport over N fused
\* records, matchedSessions = N and totalSessions = max(|SuccessRecords|,
\* |DurationRecords|) >= N; totalSessions bounds the number of distinct
\* session ids in the union when one set's ids are a subset of the other's,
\* and can be smaller than it otherwise.
C17_Amended ==
    Generated =>
        /\ stats.matchedSessions = Len(fusedData)
        /\ stats.totalSessions = Max(Len(shopifyData), Len(awsData))
        /\ stats.matchedSessions <= stats.totalSessions
        /\ (\/ IdsOf(shopifyData) \subseteq IdsOf(awsData)
            \/ IdsOf(awsData) \subseteq IdsOf(shopifyData)) =>
               UnionIds <= stats.totalSessions

\* a report that matched fewer sessions than the larger set has, over sets
\* of different sizes of which one's ids are a subset of the other's
C17_Witness ==
    /\ Generated
    /\ stats.matchedSessions < stats.totalSessions
    /\ Len(shopifyData) < Len(awsData)
    /\ IdsOf(shopifyData) \subseteq IdsOf(awsData)
    /\ UnionIds = stats.totalSessions

\* floor(N * 0.65) for the fused records on display
SplitOfDisplay == (Len(fusedData) * 65) \div 100

\* the sum of the successRate, in hundredths, of the records at the 0-based
\* indices lo .. hi - 1
RateSum(lo, hi) == sumRate(SubSeq(fusedData, lo + 1, hi))

\* a statistic, stored in tenths, is the mean of count rates that sum to
\* total hundredths, to within slack hundredths; 0 for an empty slice
IsMean(statistic, total, count, slack) ==
    IF count = 0 THEN statistic = 0
    ELSE /\ 10 * statistic * count - total <= slack * count
         /\ total - 10 * statistic * count <= slack * count

\* C18 as stated: for a duration-sorted fused sequence of length N >= 1 with
\* k = floor(N * 0.65), inflectionDuration is the durationSeconds of the
\* record at index k, earlySuccessRate is the mean successRate of the records
\* at indices < k, lateSuccessRate the mean over indices >= k, and a rate is 0
\* when its slice is empty.
C18_Original ==
    fusedData # <<>> =>
        LET N == Len(fusedData)
            k == SplitOfDisplay
        IN  /\ 10 * stats.inflectionPoint = fusedData[k + 1].sessionLength
            /\ IsMean(stats.earlySuccessRate, RateSum(0, k), k, 0)
            /\ IsMean(stats.lateSuccessRate, RateSum(k, N), N - k, 0)

\* C18 as amended: the same three statistics, each rounded to one decimal:
\* inflectionDuration is the durationSeconds of the record at index k rounded
\* to one decimal, earlySuccessRate and lateSuccessRate are the means over
\* the indices < k and >= k rounded to one decimal, and a rate is 0 when its
\* slice is empty.
C18_Amended ==
    fusedData # <<>> =>
        LET N == Len(fusedData)
            k == SplitOfDisplay
            off == 10 * stats.inflectionPoint - fusedData[k + 1].sessionLength
        IN  /\ -5 <= off /\ off <= 5
            /\ IsMean(stats.earlySuccessRate, RateSum(0, k), k, 5)
            /\ IsMean(stats.lateSuccessRate, RateSum(k, N), N - k, 5)

\* a report over one fused record: the early slice is empty, its rate is 0
C18_Witness ==
    /\ Len(fusedData) = 1
    /\ fusionMessage.kind = "Fusion report generated"
    /\ stats.earlySuccessRate = 0
    /\ 10 * stats.lateSuccessRate = fusedData[1].successRate
    /\ 10 * stats.inflectionPoint = fusedData[1].sessionLength

\* the slices of the fused records on display: fused.slice(0, k) and
\* fused.slice(k)
EarlyOfDisplay == SubSeq(fusedData, 1, SplitOfDisplay)

LateOfDisplay == SubSeq(fusedData, SplitOfDisplay + 1, Len(fusedData))

\* the split of a report is well formed: k = floor(N * 0.65) is an index of
\* the N fused records, the late slice is not empty, and the two slices are
\* disjoint and together are the N records
SplitWellFormed ==
    /\ SplitOfDisplay >= 0
    /\ SplitOfDisplay < Len(fusedData)
    /\ LateOfDisplay # <<>>
    /\ Len(EarlyOfDisplay) + Len(LateOfDisplay) = Len(fusedData)
    /\ EarlyOfDisplay \o LateOfDisplay = fusedData
    /\ fusedData = FusedNow

\* C30 as stated: whenever generateFusionReport computed statistics (N >= 1
\* fused records, sorted by duration), floor(N * 0.65) is a valid index, the
\* late slice is non-empty, the slices are disjoint and cover the N records,
\* and every early record's durationSeconds <= inflectionDuration <= every
\* late record's durationSeconds.
C30_Original ==
    Generated =>
        /\ SplitWellFormed
        /\ \A p \in DOMAIN EarlyOfDisplay :
              EarlyOfDisplay[p].sessionLength <= 10 * stats.inflectionPoint
        /\ \A p \in DOMAIN LateOfDisplay :
              10 * stats.inflectionPoint <= LateOfDisplay[p].sessionLength

\* C30 as amended: the split is well formed as stated, and the record at the
\* split index separates the slices: every early record's durationSeconds <=
\* its durationSeconds <= every late record's durationSeconds. The reported
\* inflectionDuration is that durationSeconds rounded to one decimal, so it is
\* within 0.05 of it, and it can be below an early record or above a late one.
C30_Amended ==
    Generated =>
        LET atSplit == fusedData[SplitOfDisplay + 1].sessionLength
            off == 10 * stats.inflectionPoint - atSplit
        IN  /\ SplitWellFormed
            /\ \A p \in DOMAIN EarlyOfDisplay :
                  EarlyOfDisplay[p].sessionLength <= atSplit
            /\ \A p \in DOMAIN LateOfDisplay :
                  atSplit <= LateOfDisplay[p].sessionLength
            /\ -5 <= off /\ off <= 5

\* a report over three records that the sort reordered, split after the
\* first, whose inflectionDuration is above the record at the split index
C30_Witness ==
    /\ Generated
    /\ Len(fusedData) = 3
    /\ SplitOfDisplay = 1
    /\ fusedData[1].sessionNumber # 1
    /\ fusedData[1].sessionLength < fusedData[2].sessionLength
    /\ 10 * stats.inflectionPoint > fusedData[2].sessionLength
    /\ fusedData[2].sessionLength < fusedData[3].sessionLength

-----------------------------------------------------------------------------
(* Properties of the export.                                               *)

\* C16 as stated: the exported CSV, parsed again by parseShopifyCSV (Success
\* Rate column) and by parseAWSCSV (Session Length column), gives back the
\* (sessionId, durationSeconds, successRate) triples of the fused records, in
\* their order, whatever successRate they hold.
C16_Original ==
    download # NoDownload =>
        LET success == parseShopifyCSV(download)
            duration == parseAWSCSV(download)
        IN  /\ success.ok
            /\ duration.ok
            /\ Len(success.data) = Len(fusedData)
            /\ Len(duration.data) = Len(fusedData)
            /\ \A i \in DOMAIN fusedData :
                  /\ success.data[i].sessionId = fusedData[i].sessionId
                  /\ duration.data[i].sessionId = fusedData[i].sessionId
                  /\ duration.data[i].sessionLength = fusedData[i].sessionLength
                  /\ success.data[i].successRate = fusedData[i].successRate

-----------------------------------------------------------------------------
(* Properties of the smoothing.                                            *)

\* ceil(N / windowSize)
CeilDiv(n, w) == (n + w - 1) \div w

\* C19: for a fused sequence of length N and a window size in 5..25,
\* getSmoothedData returns exactly ceil(N / windowSize) points, the c-th of
\* them for the c-th consecutive chunk of windowSize records (the last chunk
\* is shorter when windowSize does not divide N): it is named after the
\* chunk's first index and holds the chunk's mean length and mean rate to two
\* decimals. It returns the empty sequence if and only if N = 0.
C19_SmoothedChunks ==
    LET N == Len(fusedData)
        w == smoothingLevel
        out == getSmoothedData
    IN  /\ w \in 5..25
        /\ Len(out) = CeilDiv(N, w)
        /\ (out = <<>> <=> N = 0)
        /\ \A c \in DOMAIN out :
              LET first == (c - 1) * w
                  last == IF c * w <= N THEN c * w ELSE N
                  size == last - first
                  lengths == sumLength(SubSeq(fusedData, first + 1, last))
                  rates == sumRate(SubSeq(fusedData, first + 1, last))
              IN  /\ size >= 1
                  /\ (c < Len(out) => size = w)
                  /\ out[c].sessionId = "smoothed_" \o ToString(first)
                  /\ 2 * (out[c].sessionLength * size - lengths) <= size
                  /\ 2 * (lengths - out[c].sessionLength * size) <= size
                  /\ 2 * (out[c].successRate * size - rates) <= size
                  /\ 2 * (rates - out[c].successRate * size) <= size

\* a smoothed series of three points or more whose last chunk is short
C19_Witness ==
    /\ Len(getSmoothedData) >= 3
    /\ Len(fusedData) % smoothingLevel # 0
    /\ smoothingLevel # 10

-----------------------------------------------------------------------------
(* Properties of the fusion under repeated session ids.                    *)

\* the last record of the duration set that carries the id
LastOf(aws, id) ==
    aws[CHOOSE j \in DOMAIN aws :
           /\ aws[j].sessionId = id
           /\ \A k \in DOMAIN aws : aws[k].sessionId = id => k <= j]

\* C25: when a session id occurs in several duration records, fuseData gives
\* every success record of that id the sessionLength of the last such duration
\* record in input order; an earlier duplicate contributes to no fused point.
C25_LastWriteWins ==
    LET out == FusedNow
    IN  /\ \A p \in DOMAIN out :
              out[p].sessionLength = LastOf(awsData, out[p].sessionId).sessionLength
        /\ (Generated => fusedData = out)

\* a report over a duration set that repeats an id with two lengths, the
\* longer one first
C25_Witness ==
    /\ Generated
    /\ Len(awsData) = 2
    /\ awsData[1].sessionId = awsData[2].sessionId
    /\ awsData[1].sessionLength > awsData[2].sessionLength
    /\ Len(fusedData) >= 2

\* the index in the success set of its k-th record whose id some duration
\* record carries
KthMatching(shopify, aws, k) ==
    CHOOSE i \in Matching(shopify, aws) :
        Cardinality({j \in Matching(shopify, aws) : j <= i}) = k

\* C26: sessionNumber is assigned in join-output order, before the sort. In an
\* output of N fused records the sessionNumber values are exactly 1..N, each
\* once, and the point numbered k is the one of the k-th matching success
\* record in success-input order, whatever place the sort by duration gives it.
C26_NumberedBeforeSort ==
    LET out == FusedNow
        N == Len(out)
    IN  /\ {out[p].sessionNumber : p \in DOMAIN out} = 1..N
        /\ \A p, q \in DOMAIN out :
              out[p].sessionNumber = out[q].sessionNumber => p = q
        /\ N = Cardinality(Matching(shopifyData, awsData))
        /\ \A p \in DOMAIN out :
              LET i == KthMatching(shopifyData, awsData, out[p].sessionNumber)
              IN  /\ out[p].sessionId = shopifyData[i].sessionId
                  /\ out[p].successRate = shopifyData[i].successRate
        /\ (Generated => fusedData = out)

\* a report whose sort put the point numbered 2 first, over a success set
\* with one record that matched nothing
C26_Witness ==
    /\ Generated
    /\ Len(fusedData) = 2
    /\ fusedData[1].sessionNumber = 2
    /\ fusedData[2].sessionNumber = 1
    /\ Len(shopifyData) = 3
    /\ shopifyData[1].sessionId \notin IdsOf(awsData)

-----------------------------------------------------------------------------
(* Properties of the published statistics.                                 *)

\* C29: in every state that shows a report (after a generateFusionReport that
\* fused a record, or after loadSampleData), 1 <= stats.matchedSessions <=
\* stats.totalSessions, so the match rate shown never exceeds 100%, also when
\* a session id is repeated inside the success or the duration set.
C29_MatchedWithinTotal ==
    isReportGenerated =>
        /\ 1 <= stats.matchedSessions
        /\ stats.matchedSessions <= stats.totalSessions

\* a report over a success set that repeats an id, every record of which
\* matched, and a shorter duration set
C29_Witness ==
    /\ isReportGenerated
    /\ Generated
    /\ ~DistinctIds(shopifyData)
    /\ Len(awsData) < Len(shopifyData)
    /\ stats.matchedSessions = Len(shopifyData)
    /\ stats.matchedSessions = stats.totalSessions

-----------------------------------------------------------------------------
(* Properties of the upload protocol.                                      *)

\* C27 as stated: across every interleaving of upload starts, FileReader
\* completions, Demo Data and Generate Analysis clicks, generateFusionReport
\* runs only in a state where both statuses are 'success', and never while an
\* upload of either source is in flight (a FileReader started by its handler
\* has not fired yet).
C27_Original ==
    [][ClickGenerate =>
          /\ shopifyUploadStatus = "success"
          /\ awsUploadStatus = "success"
          /\ shopifyReaders = {}
          /\ awsReaders = {}
      ]_vars

\* a step in which a FileReader of the source fired
ShopifyFired == shopifyReaders' # shopifyReaders /\ shopifyReaders' \subseteq shopifyReaders

AwsFired == awsReaders' # awsReaders /\ awsReaders' \subseteq awsReaders

-----------------------------------------------------------------------------
(* Properties of the column resolution.                                    *)

\* the exact spellings the parsers accept for each field
ExactShopifyId == {"session_id", "sessionid", "session-id"}

ExactSuccess ==
    {"success_rate", "successrate", "success-rate", "success_percent",
     "success_percentage", "success"}

ExactAwsId == {"session_id", "sessionid", "session-id", "session", "id"}

ExactLength ==
    {"session_length", "sessionlength", "session-length", "session_duration",
     "duration", "length"}

\* when a header of the file is one of the exact spellings, the column
\* resolved is one whose header is an exact spelling
ExactFirst(csv, exact, column) ==
    (\E i \in DOMAIN headersOf(csv) : headersOf(csv)[i] \in exact) =>
        /\ column >= 0
        /\ headersOf(csv)[column + 1] \in exact

\* C23 as stated: column resolution tries the exact names before the
\* substring heuristic. Whenever a header of the file read equals one of a
\* field's accepted exact spellings, the index resolved for the field is the
\* index of an exactly-matching header, even when an earlier header satisfies
\* only the substring rule.  (Stated for a file with a data line, the files
\* whose columns the parsers resolve.)
C23_Original ==
    /\ ShopifyRead /\ csvText.text.rows # <<>> =>
          /\ ExactFirst(csvText.text, ExactShopifyId, ShopifyIdColumn(csvText.text))
          /\ ExactFirst(csvText.text, ExactSuccess, SuccessColumn(csvText.text))
    /\ AwsRead /\ csvText.text.rows # <<>> =>
          /\ ExactFirst(csvText.text, ExactAwsId, AwsIdColumn(csvText.text))
          /\ ExactFirst(csvText.text, ExactLength, LengthColumn(csvText.text))

-----------------------------------------------------------------------------
(* Properties of the timestamp path on numbers.                            *)

\* a number cell is below 1e10
BelowTen(cell) == parseFloat(cell).e = 0 \/ parseFloat(cell).m < 0

\* endMs > startMs when each number is scaled by its own magnitude (seconds
\* below 1e10, milliseconds from 1e10 on); across the two units the larger
\* side is the one that counts seconds near 1e10
IndependentlyPositive(start, end) ==
    IF BelowTen(start) = BelowTen(end) THEN Difference(start, end) > 0
    ELSE IF BelowTen(start) THEN parseFloat(start).e = 0
    ELSE parseFloat(end).e = 1

\* the data lines of a timestamp CSV with two number cells that yield a
\* record when each number is scaled by its own magnitude
IndependentRecordRows(csv) ==
    {i \in DOMAIN csv.rows :
        /\ Len(csv.rows[i]) >= 2
        /\ Truthy(Cell(csv.rows[i], AwsIdColumn(csv)))
        /\ BothNumbers(StartCell(csv, i), EndCell(csv, i))
        /\ IndependentlyPositive(StartCell(csv, i), EndCell(csv, i))}

\* the data lines of a timestamp CSV that hold two number cells
NumberRows(csv) ==
    {i \in DOMAIN csv.rows :
        BothNumbers(StartCell(csv, i), EndCell(csv, i))}

\* every data line of the file read holds two number cells
AllNumbers == NumberRows(csvText.text) = DOMAIN csvText.text.rows

\* C24 as stated: on the timestamp path with pure-numeric values, start and
\* end are interpreted independently: a value below 1e10 is seconds and is
\* scaled to milliseconds, a value at or above it is milliseconds already, so
\* the unit of the end value does not depend on the start value. The records
\* of a file of number rows are those of the rows whose end, so scaled, is
\* after the start, and a row whose two values have the same unit gives
\* (end - start) in seconds to two decimals.
C24_Original ==
    AwsLoaded /\ OnTimestampPath(csvText.text) /\ AllNumbers =>
        LET csv == csvText.text
            rows == IndependentRecordRows(csv)
        IN  /\ Len(awsData) = Cardinality(rows)
            /\ \A k \in DOMAIN awsData :
                  LET i == Nth(rows, k)
                      start == StartCell(csv, i)
                      end == EndCell(csv, i)
                      per == IF BelowTen(end) THEN 1 ELSE 1000
                      off == 10 * per * awsData[k].sessionLength
                             - Difference(start, end)
                  IN  BelowTen(start) = BelowTen(end) =>
                         -5 * per <= off /\ off <= 5 * per

\* C24 as amended: on the timestamp path with pure-numeric values, the unit
\* is chosen once per row, from the start value: when the start is below
\* 1e10 both values are seconds, otherwise both are milliseconds. The records
\* of a file of number rows are those of the rows with end > start as
\* numbers, and each holds (end - start) in the unit of the start, in seconds
\* to two decimals; an end at or above 1e10 after a start below it counts as
\* seconds.
C24_Amended ==
    AwsLoaded /\ OnTimestampPath(csvText.text) /\ AllNumbers =>
        LET csv == csvText.text
            rows == {i \in TimestampRecordRows(csv) : i \in NumberRows(csv)}
        IN  /\ Len(awsData) = Cardinality(rows)
            /\ \A k \in DOMAIN awsData :
                  LET i == Nth(rows, k)
                      start == StartCell(csv, i)
                      end == EndCell(csv, i)
                      per == IF BelowTen(start) THEN 1 ELSE 1000
                      off == 10 * per * awsData[k].sessionLength
                             - Difference(start, end)
                  IN  -5 * per <= off /\ off <= 5 * per

\* a parsed row whose start is below 1e10 and whose end is above it: the
\* record holds their difference in seconds, 4.5
C24_Witness ==
    /\ AwsLoaded
    /\ OnTimestampPath(csvText.text)
    /\ AllNumbers
    /\ Len(csvText.text.rows) = 1
    /\ StartCell(csvText.text, 1) = "9999999998"
    /\ EndCell(csvText.text, 1) = "10000000002.5"
    /\ awsData = <<[sessionId |-> "s1", sessionLength |-> 450]>>

-----------------------------------------------------------------------------
(* Properties of the synthetic-data CLI.                                   *)

\* a flag of the command line has a value that is not allowed: --type is not
\* aws, shopify or both, --sessions is not a number in [1, 10000], --noise is
\* not a number in [0, 1], or --pattern is not linear or curved
InvalidFlag(argv) ==
    \/ argv.type \notin {Absent, "aws", "shopify", "both"}
    \/ argv.sessions \notin {Absent, "2", "3"}
    \/ argv.noise \notin {Absent, "1"}
    \/ argv.pattern \notin {Absent, "linear", "curved"}

\* C21 as stated: the CLI exits with a non-zero code, before it generates or
\* writes any file, whenever --type is not one of aws/shopify/both,
\* --sessions is not a number in [1, 10000] (a non-numeric argument
\* included), --noise is not a number in [0, 1] (a non-numeric argument
\* included), or --pattern is not linear/curved.  (Stated for a command line
\* without --help, which prints the usage and returns before the validation.)
C21_Original ==
    cli.pc # "none" /\ InvalidFlag(cli.argv) /\ ~cli.argv.help =>
        /\ cli.pc \notin {"validated", "generated"}
        /\ cli.data = NoData
        /\ cli.files = NoFiles
        /\ (cli.pc = "exited" => cli.exitCode # 0)

\* the run of --sessions abc (no other flag) has ended with code 0 and two
\* files of a header line each
C21_SessionsNaN ==
    /\ cli.pc = "exited"
    /\ cli.argv.sessions = "abc"
    /\ cli.argv.type = Absent /\ cli.argv.noise = Absent
    /\ ~cli.argv.help
    /\ cli.exitCode = 0
    /\ DOMAIN cli.files =
          {"aws_sample_data_NaNs_2024-01-01.csv",
           "shopify_sample_data_NaNs_n15_2024-01-01.csv"}
    /\ \A name \in DOMAIN cli.files : cli.files[name].rows = <<>>

\* the data of a run of --type both
Both == cli.data

\* the sessions asked for are a valid count
ValidCount == ~cli.options.sessions.nan /\ cli.options.sessions.n \in 1..10000

\* C22: for --type both with a valid session count n, generateBothData emits
\* exactly n data rows in each of the AWS and Shopify CSVs, data row i of
\* both files carries the same user_id and the same session_id, the session
\* ids are pairwise distinct, and every AWS row has end_timestamp >
\* start_timestamp; a run that ends with code 0 has written the two CSVs.
C22_ConsistentFiles ==
    cli.pc \in {"generated", "exited"} /\ cli.options.type = "both"
    /\ cli.data # NoData /\ ValidCount =>
        LET n == cli.options.sessions.n
            aws == Both.aws.rows
            shopify == Both.shopify.rows
        IN  /\ Len(aws) = n
            /\ Len(shopify) = n
            /\ \A i \in 1..n :
                  /\ aws[i].user_id = shopify[i].user_id
                  /\ aws[i].session_id = shopify[i].session_id
                  /\ \/ aws[i].end_timestamp.whole > aws[i].start_timestamp
                     \/ /\ aws[i].end_timestamp.whole = aws[i].start_timestamp
                        /\ aws[i].end_timestamp.tenth > 0
            /\ \A i, j \in 1..n :
                  aws[i].session_id = aws[j].session_id => i = j
            /\ (cli.pc = "exited" /\ cli.exitCode = 0 /\ cli.options.output = Absent =>
                  /\ Cardinality(DOMAIN cli.files) = 2
                  /\ \E a, b \in DOMAIN cli.files :
                        cli.files[a] = Both.aws /\ cli.files[b] = Both.shopify)

\* the default run has written its two files of 200 rows, in which two
\* sessions have different user ids
C22_Witness ==
    /\ cli.pc = "exited"
    /\ cli.exitCode = 0
    /\ cli.argv.type = Absent
    /\ cli.argv.sessions = Absent
    /\ Len(cli.data.aws.rows) = 200
    /\ cli.data.aws.rows[1].user_id # cli.data.aws.rows[2].user_id
    /\ cli.data.aws.rows[200].session_id = "SESS_000200"

=============================================================================
